---- MODULE Spec2Model ----
(***************************************************************************)
(* The universal extraction pipeline of tu-vm: the bucket watcher          *)
(* (universal_auto_processor.py) driving the per-file pipeline             *)
(* (universal_processor.py) against an S3-compatible object store, a Tika  *)
(* extraction service and the dashboard's status file.                     *)
(*                                                                         *)
(* The watcher and the pipeline are one sequential thread; pc is its       *)
(* position.  Every blocking call (object store, extraction service,       *)
(* status file) is one step whose outcome the environment chooses.         *)
(***************************************************************************)
EXTENDS Integers, Sequences, FiniteSets, TLC

(***************************************************************************)
(* Program constants and model bounds                                      *)
(***************************************************************************)
\* the watcher's failure cap (the literal 3 of process_new_files)
Cap == 3
\* UniversalMinIOProcessor.__init__(max_retries = 3)
max_retries == 3
\* keys returned by one list_objects_v2 page (1000 in S3; small here)
PageSize == 2
\* the exception path of process_new_files counts without limit; the model
\* stops counting one failure at MaxFail
MaxFail == 3
\* the largest max_retries a caller of the retry status update passes
MaxRetriesArg == 17
\* main's loop checks the extraction service and logs the statistics every
\* 60 cycles
HealthCheckEvery == 60
\* the cycles of main's loop that are counted
MaxCycles == 121

(***************************************************************************)
(* Strings: str and pathlib.PurePosixPath as the code uses them            *)
(***************************************************************************)
Chr(s, i) == SubSeq(s, i, i)

Max(S) == CHOOSE m \in S : \A n \in S : n <= m

\* str.rfind(c) + 1 (0 when c does not occur)
RFind(s, c) ==
    LET at == {i \in 1..Len(s) : Chr(s, i) = c}
    IN  IF at = {} THEN 0 ELSE Max(at)

\* str.endswith
EndsWith(s, e) ==
    /\ Len(s) >= Len(e)
    /\ SubSeq(s, Len(s) - Len(e) + 1, Len(s)) = e

\* str.startswith
StartsWith(s, e) ==
    /\ Len(s) >= Len(e)
    /\ SubSeq(s, 1, Len(e)) = e

UpperCase == "ABCDEFGHIJKLMNOPQRSTUVWXYZ"
LowerCase == "abcdefghijklmnopqrstuvwxyz"

LowerChr(c) ==
    LET at == {i \in 1..Len(UpperCase) : Chr(UpperCase, i) = c}
    IN  IF at = {} THEN c ELSE Chr(LowerCase, CHOOSE i \in at : TRUE)

\* str.lower
RECURSIVE Lower(_)
Lower(s) ==
    IF s = "" THEN "" ELSE LowerChr(Chr(s, 1)) \o Lower(Tail(s))

\* str.strip(c)
RECURSIVE LStrip(_, _)
LStrip(s, c) ==
    IF s # "" /\ Chr(s, 1) = c THEN LStrip(Tail(s), c) ELSE s

RECURSIVE RStrip(_, _)
RStrip(s, c) ==
    IF s # "" /\ Chr(s, Len(s)) = c THEN RStrip(SubSeq(s, 1, Len(s) - 1), c) ELSE s

Strip(s, c) == RStrip(LStrip(s, c), c)

\* Path(key).name: the last component
PathName(key) == SubSeq(key, RFind(key, "/") + 1, Len(key))

\* str(Path(key).parent): "." when the key has no directory part
PathParent(key) ==
    LET i == RFind(key, "/")
    IN  IF i = 0 THEN "." ELSE IF i = 1 THEN "/" ELSE SubSeq(key, 1, i - 1)

\* Path(key).suffix: from the last dot of the name, unless that dot is the
\* name's first or last character
PathSuffix(key) ==
    LET name == PathName(key)
        i    == RFind(name, ".")
    IN  IF 1 < i /\ i < Len(name) THEN SubSeq(name, i, Len(name)) ELSE ""

\* Path(key).stem: the name without its suffix
PathStem(key) ==
    LET name == PathName(key)
        i    == RFind(name, ".")
    IN  IF 1 < i /\ i < Len(name) THEN SubSeq(name, 1, i - 1) ELSE name

(***************************************************************************)
(* Classifier                                                              *)
(***************************************************************************)
\* SUPPORTED_EXTENSIONS in the order sorted(keys, key=len, reverse=True)
\* tries them: longest first
SUPPORTED_EXTENSIONS ==
    << <<".tar.gz", "archive">>,
       <<".docx", "tika">>, <<".xlsx", "tika">>, <<".pptx", "tika">>,
       <<".epub", "tika">>, <<".mobi", "tika">>, <<".json", "text">>,
       <<".html", "text">>, <<".jpeg", "tika">>, <<".tiff", "tika">>,
       <<".webp", "tika">>,
       <<".pdf", "tika">>, <<".doc", "tika">>, <<".xls", "tika">>,
       <<".ppt", "tika">>, <<".odt", "tika">>, <<".ods", "tika">>,
       <<".odp", "tika">>, <<".rtf", "tika">>, <<".txt", "text">>,
       <<".csv", "text">>, <<".xml", "text">>, <<".htm", "text">>,
       <<".log", "text">>, <<".jpg", "tika">>, <<".png", "tika">>,
       <<".gif", "tika">>, <<".bmp", "tika">>, <<".tif", "tika">>,
       <<".zip", "archive">>, <<".tar", "archive">>, <<".tgz", "archive">>,
       <<".rar", "archive">>,
       <<".md", "text">>, <<".gz", "archive">>, <<".7z", "archive">> >>

SKIP_EXTENSIONS == {".txt", ".processed", ".lock", ".tmp", ".swp"}

\* mimetypes.guess_type(filename)[0] for the extensions outside the table
\* that the model's file names use; "" stands for None
GuessMimeType(filename) ==
    LET s == PathSuffix(Lower(filename))
    IN  CASE s = ".py"  -> "text/x-python"
          [] s = ".css" -> "text/css"
          [] s = ".svg" -> "image/svg+xml"
          [] s = ".ico" -> "image/vnd.microsoft.icon"
          [] s = ".mp3" -> "audio/mpeg"
          [] s = ".pdf" -> "application/pdf"
          [] s \in {".jpg", ".jpeg"} -> "image/jpeg"
          [] s = ".png" -> "image/png"
          [] s = ".zip" -> "application/zip"
          [] s = ".md"  -> "text/markdown"
          [] OTHER      -> ""

\* a classifier that skips what it does not know
MutGetFileType(filename) ==
    LET low   == Lower(filename)
        known == {i \in 1..Len(SUPPORTED_EXTENSIONS) :
                    EndsWith(low, SUPPORTED_EXTENSIONS[i][1])}
    IN  IF PathSuffix(low) \in SKIP_EXTENSIONS \/ known = {} THEN "skip"
        ELSE SUPPORTED_EXTENSIONS[CHOOSE i \in known : \A j \in known : i <= j][2]

\* _get_file_type(filename)[0]
GetFileType(filename) ==
    LET low   == Lower(filename)
        known == {i \in 1..Len(SUPPORTED_EXTENSIONS) :
                    EndsWith(low, SUPPORTED_EXTENSIONS[i][1])}
        mime  == GuessMimeType(filename)
    IN  IF PathSuffix(low) \in SKIP_EXTENSIONS THEN "skip"
        ELSE IF known # {}
             THEN SUPPORTED_EXTENSIONS[CHOOSE i \in known : \A j \in known : i <= j][2]
        ELSE IF mime # "" /\ StartsWith(mime, "text/") THEN "text"
        ELSE "tika"

(***************************************************************************)
(* Output key                                                              *)
(***************************************************************************)
\* process_file_from_minio: the key the existence check tests
OutputKey(object_key) ==
    LET parent == Strip(PathParent(object_key), ".")
    IN  IF parent = "" THEN PathStem(object_key) \o ".txt"
        ELSE parent \o "/" \o PathStem(object_key) \o ".txt"

\* a pipeline that writes its output under a Markdown name
MutStoreOutputKey(original_object_key) ==
    LET stem   == PathStem(original_object_key)
        parent == Strip(PathParent(original_object_key), ".")
    IN  IF parent = "" THEN stem \o ".md" ELSE parent \o "/" \o stem \o ".md"

\* store_processed_content: the key the result is written to
StoreOutputKey(original_object_key) ==
    LET stem   == PathStem(original_object_key)
        parent == Strip(PathParent(original_object_key), ".")
    IN  IF parent = "" THEN stem \o ".txt" ELSE parent \o "/" \o stem \o ".txt"

(***************************************************************************)
(* Configuration and environment                                           *)
(***************************************************************************)
\* UPLOADS_BUCKET and PROCESSED_BUCKET both default to "tika-pipe"
DefaultUploadsBucket == "tika-pipe"
processed_bucket == "tika-pipe"

\* An object's content: src is "upload" for an uploaded file and, for an
\* output, the file id of the candidate whose text it holds.
Upload == [src |-> "upload", text |-> "raw"]

\* an object store holding the uploads tp in "tika-pipe" and sc in "scans"
Uploads(tp, sc) ==
    [b \in {"tika-pipe", "scans"} |->
        [k \in (IF b = "tika-pipe" THEN tp ELSE sc) |-> Upload]]

\* the configurations the model starts from, each a value of WATCH_BUCKETS
\* and the uploads present: WATCH_BUCKETS unset (the uploads bucket alone),
\* a list naming that bucket twice, and two buckets whose uploads share a
\* base name
Configs ==
    { [watch |-> <<"tika-pipe">>, store |-> Uploads({"n.md", "r.pdf"}, {})],
      [watch |-> <<"tika-pipe", "tika-pipe">>, store |-> Uploads({"n.md"}, {})],
      [watch |-> <<"tika-pipe", "scans">>, store |-> Uploads({"r.pdf"}, {"r.md"})] }

\* every key of the model in the object store's listing order (UTF-8
\* binary order of the keys)
KeyOrder ==
    <<".hidden/x.pdf", "a.tar.gz", "a.tar.txt", "docs/report.pdf", "docs/report.txt",
      "hidden/x.txt", "n.md", "n.txt", "r.md", "r.pdf", "r.txt", "report",
      "report.txt", "x.lock", "x.pdf", "x.png", "x.txt", "x.unknownext", "x.zip">>

\* the uploads of the single-file configurations: one key per shape of name
\* (multi-part extension, dotted parent, nested, no extension, unknown
\* extension, remote document, archive, lock file, plain text)
FileKeys ==
    {"a.tar.gz", ".hidden/x.pdf", "docs/report.pdf", "report", "x.unknownext",
     "x.pdf", "x.zip", "x.lock", "x.txt"}

\* f"{bucket}:{object_key}"
FileId(bucket, object_key) == bucket \o ":" \o object_key

Ids ==
    {FileId(b, k) : b \in {"tika-pipe", "scans"}, k \in {"n.md", "r.md", "r.pdf"}}
        \cup {FileId("tika-pipe", k) : k \in FileKeys \cup {"x.png"}}

VARIABLES
    pc,               \* position of the single thread
    watch_buckets,    \* UniversalMinIOWatcher.watch_buckets
    processed_files,  \* UniversalMinIOWatcher.processed_files
    failed_files,     \* UniversalMinIOWatcher.failed_files
    new_files,        \* the list process_new_files iterates over
    idx,              \* position of the for loop in new_files
    uploads_bucket,   \* UniversalMinIOProcessor.uploads_bucket
    original_bucket,  \* the local of process_new_files
    store,            \* the object store: bucket -> key -> content
    status,           \* the status file's document
    attempt,          \* the loop variable of _process_with_tika
    text_content,     \* the body of the extraction service's answer
    result,           \* what the extractor returned
    ret,              \* how the pipeline invocation ended
    tracing,          \* whether log is kept
    log,              \* the calls of the running invocation, in order
    outcomes,         \* the outcomes handled so far in this cycle
    list_errors,      \* the positions of watch_buckets whose listing raised
    history,          \* per file id: failed invocations, any success
    status_data,      \* the local of _update_status
    temp_file,        \* the content of the file at STATUS_FILE.tmp
    reader,           \* what the dashboard last read from STATUS_FILE
    archive,          \* the file _process_archive is called with
    member,           \* position of its loop over the container's entries
    extracted_files,  \* the local extracted_files of _process_archive
    all_text,         \* the local all_text of _process_archive
    requests,         \* the requests of the running invocation to the
                      \* extraction service, in order, when the log is kept
    counting,         \* whether main's cycles are counted
    health_check_counter,  \* the local of main
    cycles,           \* the calls of process_new_files that returned to main
    probes,           \* the health probes main's loop made: cycle and outcome
    printed,          \* the calls of print_stats: kind, cycle and outcome
    control_token,    \* CONTROL_TOKEN of the helper service (uploader.py)
    allowlist_file,   \* the inode at ALLOWLIST_FILE, 0 when there is none
    allowlist_tmp,    \* the inode at ALLOWLIST_FILE + ".tmp", 0 when none
    inodes,           \* the content of every inode: its text
    handlers,         \* per request handler of the helper: request, position
                      \* and locals
    effects           \* what the handlers did so far: <<handler, call>>

vars == <<pc, watch_buckets, processed_files, failed_files, new_files, idx,
          uploads_bucket, original_bucket, store, status, attempt,
          text_content, result, ret, tracing, log, outcomes, list_errors, history,
          status_data, temp_file, reader,
          archive, member, extracted_files, all_text, requests,
          counting, health_check_counter, cycles, probes, printed,
          control_token, allowlist_file, allowlist_tmp, inodes, handlers, effects>>

watcherVars == <<watch_buckets, tracing, processed_files, failed_files, new_files, idx,
                 original_bucket, outcomes, list_errors, history>>

\* what the stepwise writer of the status file and its reader hold
statusFileVars == <<status_data, temp_file, reader>>

\* what the archive extractor holds while it runs
archiveVars == <<archive, member, extracted_files, all_text>>

\* what main holds and what it did
mainVars == <<counting, health_check_counter, cycles, probes, printed>>

\* the helper service's configuration, its files and its request handlers
helperVars == <<control_token, allowlist_file, allowlist_tmp, inodes, handlers, effects>>

\* the request handlers of the helper service (Flask serves each request in
\* a thread of its own)
Handlers == {1, 2}

\* a handler with no request: its request, its locals (the validated ip,
\* the list it read, the list it writes and later the list it answers with,
\* the inode it writes to) and the status code of its response, 0 while
\* there is none
NoRequest ==
    [pc |-> "idle", endpoint |-> "none", header |-> "None", query |-> "None",
     arg |-> "", ip |-> "", current |-> <<>>, ips |-> <<>>, fd |-> 0, code |-> 0]

\* the helper service with no request to serve
HelperIdle ==
    /\ control_token = "secret"
    /\ allowlist_file = 0
    /\ allowlist_tmp = 0
    /\ inodes = <<>>
    /\ handlers = [h \in Handlers |-> NoRequest]
    /\ effects = {}

\* the state outside the watcher's cycle and the pipeline
sideVars == <<statusFileVars, archiveVars, mainVars, helperVars>>

NoResult == [status |-> "none"]

\* no call of the archive extractor is running
NoArchive == [name |-> "", format |-> "none", members |-> <<>>]

\* the candidate the for loop of process_new_files is at
CurBucket == new_files[idx][1]
CurKey == new_files[idx][2]
CurId == FileId(CurBucket, CurKey)
CurName == PathName(CurKey)

(***************************************************************************)
(* Object store                                                            *)
(***************************************************************************)
Min(a, b) == IF a < b THEN a ELSE b

Exists(bucket, key) == bucket \in DOMAIN store /\ key \in DOMAIN store[bucket]

\* list_objects_v2(Bucket=bucket) without a continuation token: the first
\* page of the bucket's keys
FirstPage(bucket) ==
    LET all == SelectSeq(KeyOrder, LAMBDA k : Exists(bucket, k))
    IN  SubSeq(all, 1, Min(PageSize, Len(all)))

\* put_object(Bucket, Key, Body)
PutObject(st, bucket, key, body) ==
    [st EXCEPT ![bucket] =
        [k \in DOMAIN @ \cup {key} |-> IF k = key THEN body ELSE @[k]]]

(***************************************************************************)
(* Status file                                                             *)
(***************************************************************************)
\* log with one more call, when the log is kept
Logged(call) == IF tracing THEN Append(log, call) ELSE log

\* no clamping
MutClamp(progress) == progress

\* max(0, min(100, progress))
Clamp(progress) == IF progress < 0 THEN 0 ELSE IF progress > 100 THEN 100 ELSE progress

\* the document _update_status serializes
StatusData(processing, current_file, progress, phase, error) ==
    [processing |-> processing, current_file |-> current_file,
     progress |-> Clamp(progress), status |-> phase, error |-> error]

\* _update_status: when the write or the rename fails (ok = FALSE) the file
\* keeps its document and the except clause, which names the nonexistent
\* json.JSONEncodeError, raises AttributeError to the caller
UpdateStatus(ok, data, returns, raises) ==
    /\ status' = IF ok THEN data ELSE status
    /\ log' = IF ok THEN log ELSE Logged("status_fail")
    /\ pc' = IF ok THEN returns ELSE raises

\* error strings are kept as "error": their text decides nothing
Idle == StatusData(FALSE, "None", 0, "idle", "None")
Failed == StatusData(FALSE, "None", 0, "idle", "error")

\* the contents a file can have besides a whole document: no file at the
\* path, a file just opened with 'w', a file holding the first part of doc
NoFile == [exists |-> FALSE]
Truncated == [bytes |-> 0]
PartOf(doc) == [part_of |-> doc]

(***************************************************************************)
(* Watcher: check_for_new_files                                            *)
(***************************************************************************)
\* the filter applied to one listed key
IsCandidate(bucket, object_key) ==
    /\ FileId(bucket, object_key) \notin processed_files
    /\ ~EndsWith(Lower(object_key), ".txt")
    /\ \A ext \in {".lock", ".tmp", ".swp", ".processed"} :
          ~EndsWith(Lower(object_key), ext)
    /\ GetFileType(object_key) # "skip"

\* the objects of one bucket the watcher examines: response['Contents'] of
\* the single list_objects_v2 call
Listed(bucket) == FirstPage(bucket)

\* the candidates one bucket contributes
NewFilesOf(bucket) ==
    LET keep == SelectSeq(Listed(bucket), LAMBDA k : IsCandidate(bucket, k))
    IN  [i \in 1..Len(keep) |-> <<bucket, keep[i]>>]

\* a loop inside one try block: the first listing that raises ends it
RECURSIVE MutCheckBuckets(_, _)
MutCheckBuckets(i, errs) ==
    IF i > Len(watch_buckets) \/ i \in errs THEN <<>>
    ELSE NewFilesOf(watch_buckets[i]) \o MutCheckBuckets(i + 1, errs)

\* the loop over watch_buckets; errs are the positions whose listing raises
RECURSIVE CheckBuckets(_, _)
CheckBuckets(i, errs) ==
    IF i > Len(watch_buckets) THEN <<>>
    ELSE (IF i \in errs THEN <<>> ELSE NewFilesOf(watch_buckets[i]))
            \o CheckBuckets(i + 1, errs)

pipelineVars == <<uploads_bucket, store, status, attempt, text_content, result,
                  ret, log, requests, sideVars>>

\* process_new_files up to its for loop
CheckForNewFiles ==
    /\ pc = "loop"
    /\ \E errs \in SUBSET (1..Len(watch_buckets)) :
          /\ new_files' = CheckBuckets(1, errs)
          /\ list_errors' = errs
    /\ idx' = 1
    /\ outcomes' = <<>>
    /\ pc' = "file"
    /\ UNCHANGED <<watch_buckets, tracing, processed_files, failed_files,
                   original_bucket, history, pipelineVars>>

(***************************************************************************)
(* Watcher: process_new_files and the main loop                            *)
(***************************************************************************)
\* the for loop takes the next candidate and calls process_file_from_minio
BeginFile ==
    /\ pc = "file"
    /\ idx <= Len(new_files)
    /\ original_bucket' = uploads_bucket
    /\ uploads_bucket' = CurBucket
    /\ pc' = "head"
    /\ UNCHANGED <<watch_buckets, processed_files, failed_files, new_files, idx,
                   outcomes, list_errors, history, store, status, attempt,
                   text_content, result, ret, tracing, log, requests, sideVars>>

\* a loop that checks after 61 cycles
MutHealthCheckDue(counter) == counter > HealthCheckEvery

\* if health_check_counter >= 60:
HealthCheckDue(counter) == counter >= HealthCheckEvery

\* the for loop is exhausted (or there was no candidate): process_new_files
\* returns and main counts the cycle; on every 60th it resets the counter
\* and goes on to the health check, otherwise it sleeps and loops
FinishCycle ==
    /\ pc = "file"
    /\ idx > Len(new_files)
    /\ counting => cycles < MaxCycles
    /\ new_files' = <<>>
    /\ idx' = 1
    /\ outcomes' = <<>>
    /\ list_errors' = {}
    /\ IF counting
       THEN /\ cycles' = cycles + 1
            /\ IF HealthCheckDue(health_check_counter + 1)
               THEN health_check_counter' = 0 /\ pc' = "health"
               ELSE health_check_counter' = health_check_counter + 1 /\ pc' = "loop"
       ELSE /\ pc' = "loop"
            /\ UNCHANGED <<health_check_counter, cycles>>
    /\ UNCHANGED <<watch_buckets, tracing, processed_files, failed_files,
                   original_bucket, history, uploads_bucket, store, status, attempt,
                   text_content, result, ret, log, requests, statusFileVars,
                   archiveVars, counting, probes, printed, helperVars>>

Count(id) == IF id \in DOMAIN failed_files THEN failed_files[id] ELSE 0
SetCount(f, id, n) == [k \in DOMAIN f \cup {id} |-> IF k = id THEN n ELSE f[k]]
Pop(f, id) == [k \in DOMAIN f \ {id} |-> f[k]]

\* what every branch of the loop body does on its way to the next candidate
NextCandidate ==
    /\ idx' = idx + 1
    /\ outcomes' = Append(outcomes, ret)
    /\ pc' = "file"
    /\ attempt' = 0
    /\ text_content' = "none"
    /\ result' = NoResult
    /\ ret' = "none"
    /\ log' = <<>>
    /\ requests' = <<>>
    /\ UNCHANGED <<watch_buckets, tracing, new_files, list_errors, store, status,
                   sideVars>>

\* if success:
HandleSuccess ==
    /\ pc = "handle"
    /\ ret = "true"
    /\ uploads_bucket' = original_bucket
    /\ processed_files' = processed_files \cup {CurId}
    /\ failed_files' = Pop(failed_files, CurId)
    /\ history' = [history EXCEPT ![CurId].succ = TRUE]
    /\ UNCHANGED original_bucket
    /\ NextCandidate

\* else: count the failure, and at the cap mark the file processed
HandleFailure ==
    /\ pc = "handle"
    /\ ret = "false"
    /\ uploads_bucket' = original_bucket
    /\ IF Count(CurId) + 1 >= Cap
       THEN /\ processed_files' = processed_files \cup {CurId}
            /\ failed_files' = Pop(failed_files, CurId)
       ELSE /\ processed_files' = processed_files
            /\ failed_files' = SetCount(failed_files, CurId, Count(CurId) + 1)
    /\ history' = [history EXCEPT ![CurId].fails = @ + 1]
    /\ UNCHANGED original_bucket
    /\ NextCandidate

\* a loop body without its try block: the exception leaves process_new_files
\* and main re-raises it
MutHandleException ==
    /\ pc = "handle"
    /\ ret = "exc"
    /\ pc' = "stopped"
    /\ UNCHANGED <<watcherVars, pipelineVars>>

\* except Exception: count the failure
HandleException ==
    /\ pc = "handle"
    /\ ret = "exc"
    /\ Count(CurId) < MaxFail
    /\ uploads_bucket' = uploads_bucket
    /\ processed_files' = processed_files
    /\ failed_files' = SetCount(failed_files, CurId, Count(CurId) + 1)
    /\ history' = [history EXCEPT ![CurId].fails = @ + 1]
    /\ UNCHANGED original_bucket
    /\ NextCandidate

(***************************************************************************)
(* Pipeline: process_file_from_minio                                       *)
(***************************************************************************)
\* what every pipeline step leaves alone
PipelineUnchanged == UNCHANGED <<watcherVars, uploads_bucket, sideVars>>

\* what a pipeline step that sends nothing to the extraction service leaves
\* alone
WatcherUnchanged == PipelineUnchanged /\ UNCHANGED requests

\* the outcomes of head_object on the output key: it answers (the object
\* exists), raises ClientError 404 (it does not), or fails for another
\* reason (another ClientError code, a connection error) whether or not
\* the object exists
HeadOutcomes(key) ==
    IF Exists(processed_bucket, key) THEN {"found", "error"} ELSE {"absent", "error"}

\* a pipeline without the idempotency check
MutProceedsAfterHead(outcome) == TRUE

\* whether the pipeline goes on to download and extract after head_object
ProceedsAfterHead(outcome) == outcome # "found"

\* the existence check on the output key
HeadObject ==
    /\ pc = "head"
    /\ \E outcome \in HeadOutcomes(OutputKey(CurKey)) :
          /\ log' = Logged("head_" \o outcome)
          /\ IF ProceedsAfterHead(outcome)
             THEN pc' = "st_download" /\ ret' = ret
             ELSE pc' = "handle" /\ ret' = "true"
    /\ UNCHANGED <<store, status, attempt, text_content, result>>
    /\ WatcherUnchanged

\* _update_status(progress=5, 'downloading from MinIO')
StDownloading ==
    /\ pc = "st_download"
    /\ \E ok \in BOOLEAN :
          UpdateStatus(ok, StatusData(TRUE, CurName, 5, "downloading from MinIO", "None"),
                       "get", "exc_pipeline")
    /\ UNCHANGED <<store, attempt, text_content, result, ret>>
    /\ WatcherUnchanged

\* get_object on the uploads bucket
GetObject ==
    /\ pc = "get"
    /\ \E ok \in {Exists(uploads_bucket, CurKey), FALSE} :
          /\ log' = Logged(IF ok THEN "get_ok" ELSE "get_fail")
          /\ pc' = IF ok THEN "process_file" ELSE "st_get_failed"
    /\ UNCHANGED <<store, status, attempt, text_content, result, ret>>
    /\ WatcherUnchanged

\* the download failed: report it and return False
StGetFailed ==
    /\ pc = "st_get_failed"
    /\ \E ok \in BOOLEAN :
          /\ UpdateStatus(ok, Failed,
                          "handle", "exc_pipeline")
          /\ ret' = IF ok THEN "false" ELSE ret
    /\ UNCHANGED <<store, attempt, text_content, result>>
    /\ WatcherUnchanged

\* mimetypes.guess_type(filename)[0] or 'application/octet-stream'
ContentType(filename) ==
    IF GuessMimeType(filename) = "" THEN "application/octet-stream"
    ELSE GuessMimeType(filename)

\* OCR is requested for PDFs and images
EnableOcr(content_type) ==
    content_type = "application/pdf" \/ StartsWith(content_type, "image/")

\* the extensions _process_archive opens as a container
OpensContainer(filename) ==
    PathSuffix(Lower(filename)) \in {".zip", ".tar", ".tar.gz", ".tgz"}

\* _get_file_type(filename)[0] and enable_ocr for the file name of every key
\* of the model
FileTypeOf == [k \in {KeyOrder[i] : i \in DOMAIN KeyOrder} |-> GetFileType(PathName(k))]
OcrUsedOf ==
    [k \in {KeyOrder[i] : i \in DOMAIN KeyOrder} |-> EnableOcr(ContentType(PathName(k)))]

\* an extractor that never extends the timeout
MutRequestTimeout(enable_ocr) == 60

\* request_timeout = 900 if enable_ocr else 60, set once before the retry
\* loop
RequestTimeout(enable_ocr) == IF enable_ocr THEN 900 ELSE 60

\* requests.put(tika_url/tika, headers, timeout=request_timeout) and what
\* came of it; a header that is not sent is "None"
TikaRequest(content_type, answer) ==
    [url |-> "/tika", content_type |-> content_type, accept |-> "text/plain",
     ocr_strategy |-> IF EnableOcr(content_type) THEN "ocr_and_text_extraction" ELSE "None",
     timeout_millis |-> IF EnableOcr(content_type) THEN "900000" ELSE "None",
     timeout |-> RequestTimeout(EnableOcr(content_type)),
     answer |-> answer]

\* requests.put(tika_url/meta, headers, timeout=900 if enable_ocr else 30)
MetaRequest(content_type, answer) ==
    [url |-> "/meta", content_type |-> content_type, accept |-> "None",
     ocr_strategy |-> "None",
     timeout_millis |-> IF EnableOcr(content_type) THEN "900000" ELSE "None",
     timeout |-> IF EnableOcr(content_type) THEN 900 ELSE 30,
     answer |-> answer]

\* requests with one more request, when the log is kept
Sent(request) == IF tracing THEN Append(requests, request) ELSE requests

\* the answers to PUT /tika: 200 with a text or with an empty or short
\* body, another status code, a timeout, a connection error
TikaAnswers == {"text", "short", "non200", "timeout", "connerr"}

\* the two requests for every key of the model and every answer
TikaRequestOf ==
    [k \in {KeyOrder[i] : i \in DOMAIN KeyOrder} |->
        [a \in TikaAnswers |-> TikaRequest(ContentType(PathName(k)), a)]]
MetaRequestOf ==
    [k \in {KeyOrder[i] : i \in DOMAIN KeyOrder} |->
        [a \in {"ok", "fail"} |-> MetaRequest(ContentType(PathName(k)), a)]]

\* process_file: dispatch on the file type.  The text extractor always
\* returns a result; the archive extractor returns None when the container
\* it opens is unreadable; the remote extractor starts with its first
\* status update.
ProcessFile ==
    /\ pc = "process_file"
    /\ LET file_type == FileTypeOf[CurKey]
       IN  CASE file_type = "text" ->
                  /\ result' = [status |-> "success", method |-> "text",
                                text |-> "decoded", metadata |-> "text",
                                ocr_used |-> FALSE]
                  /\ log' = Logged("extract_text")
                  /\ pc' = "st_storing"
             [] file_type = "archive" ->
                  \E readable \in IF OpensContainer(CurName) THEN BOOLEAN ELSE {TRUE} :
                      /\ result' = IF readable
                                   THEN [status |-> "success", method |-> "archive",
                                         text |-> "listing", metadata |-> "archive",
                                         ocr_used |-> FALSE]
                                   ELSE NoResult
                      /\ log' = Logged("extract_archive")
                      /\ pc' = IF readable THEN "st_storing" ELSE "st_failed"
             [] file_type = "tika" ->
                  /\ result' = result
                  /\ log' = Logged("extract_tika")
                  /\ pc' = "tika_begin"
             [] OTHER ->
                  /\ result' = NoResult
                  /\ log' = log
                  /\ pc' = "st_failed"
    /\ UNCHANGED <<store, status, attempt, text_content, ret>>
    /\ WatcherUnchanged

\* no result: report it and return False
StFailed ==
    /\ pc = "st_failed"
    /\ \E ok \in BOOLEAN :
          /\ UpdateStatus(ok, Failed, "handle", "exc_pipeline")
          /\ ret' = IF ok THEN "false" ELSE ret
    /\ UNCHANGED <<store, attempt, text_content, result>>
    /\ WatcherUnchanged

\* _update_status(progress=95, 'storing processed content')
StStoring ==
    /\ pc = "st_storing"
    /\ \E ok \in BOOLEAN :
          UpdateStatus(ok, StatusData(TRUE, CurName, 95, "storing processed content", "None"),
                       "put", "exc_pipeline")
    /\ UNCHANGED <<store, attempt, text_content, result, ret>>
    /\ WatcherUnchanged

\* store_processed_content: one put_object, True when it succeeds
StoreProcessedContent ==
    /\ pc = "put"
    /\ \E ok \in BOOLEAN :
          /\ log' = Logged(IF ok THEN "put_ok" ELSE "put_fail")
          /\ store' = IF ok
                      THEN PutObject(store, processed_bucket, StoreOutputKey(CurKey),
                                     [src |-> CurId, text |-> result.text])
                      ELSE store
          /\ pc' = IF ok THEN "st_completed" ELSE "st_store_failed"
    /\ UNCHANGED <<status, attempt, text_content, result, ret>>
    /\ WatcherUnchanged

\* _update_status(progress=100, 'completed'); return True
StCompleted ==
    /\ pc = "st_completed"
    /\ \E ok \in BOOLEAN :
          /\ UpdateStatus(ok, StatusData(FALSE, "None", 100, "completed", "None"),
                          "handle", "exc_pipeline")
          /\ ret' = IF ok THEN "true" ELSE ret
    /\ UNCHANGED <<store, attempt, text_content, result>>
    /\ WatcherUnchanged

\* the write failed: report it and return False
StStoreFailed ==
    /\ pc = "st_store_failed"
    /\ \E ok \in BOOLEAN :
          /\ UpdateStatus(ok, Failed, "handle", "exc_pipeline")
          /\ ret' = IF ok THEN "false" ELSE ret
    /\ UNCHANGED <<store, attempt, text_content, result>>
    /\ WatcherUnchanged

\* except Exception of process_file_from_minio: report and return False;
\* when this status update raises too, the exception reaches the watcher
PipelineExcept ==
    /\ pc = "exc_pipeline"
    /\ \E ok \in BOOLEAN :
          /\ UpdateStatus(ok, Failed, "handle", "handle")
          /\ ret' = IF ok THEN "false" ELSE "exc"
    /\ UNCHANGED <<store, attempt, text_content, result>>
    /\ WatcherUnchanged

(***************************************************************************)
(* Pipeline: _process_with_tika                                            *)
(***************************************************************************)
TikaFrame == UNCHANGED <<store, ret>> /\ WatcherUnchanged

\* the phase text of attempt a of n; attempt counts from 0
AttemptPhaseOf(what, a, n) ==
    what \o " (attempt " \o ToString(a + 1) \o "/" \o ToString(n) \o ")"

AttemptPhase(what, a) == AttemptPhaseOf(what, a, max_retries)

\* _update_status(progress=10, 'processing') before the retry loop
TikaBegin ==
    /\ pc = "tika_begin"
    /\ \E ok \in BOOLEAN :
          UpdateStatus(ok, StatusData(TRUE, CurName, 10, "processing", "None"),
                       "tika_attempt", "tika_outer_exc")
    /\ attempt' = 0
    /\ UNCHANGED <<text_content, result>>
    /\ TikaFrame

\* for attempt in range(max_retries): the status update that opens the
\* try block of an attempt.  Every attempt returns or continues, so with
\* max_retries >= 1 the loop never runs out.
TikaAttempt ==
    /\ pc = "tika_attempt"
    /\ attempt < max_retries
    /\ \E ok \in BOOLEAN :
          UpdateStatus(ok, StatusData(TRUE, CurName, 30,
                                      AttemptPhase("processing", attempt), "None"),
                       "tika_put", "tika_inner_exc")
    /\ UNCHANGED <<attempt, text_content, result>>
    /\ TikaFrame

\* requests.put(tika_url/tika): 200 with a text or with an empty or short
\* body, another status code, a timeout, a connection error
TikaPut ==
    /\ pc = "tika_put"
    /\ \E answer \in TikaAnswers :
          /\ log' = Logged(CASE answer = "text" -> "tika_ok"
                              [] answer = "short" -> "tika_short"
                              [] OTHER -> "tika_fail")
          /\ requests' = Sent(TikaRequestOf[CurKey][answer])
          /\ text_content' = IF answer \in {"text", "short"} THEN answer ELSE "none"
          /\ pc' = CASE answer \in {"text", "short"} -> "st_meta"
                     [] answer = "non200" -> "tika_non200"
                     [] answer = "timeout" -> "tika_timeout"
                     [] answer = "connerr" -> "tika_connerr"
    /\ UNCHANGED <<status, attempt, result, store, ret>>
    /\ PipelineUnchanged

\* _update_status(progress=70, 'extracting metadata'), inside the try block
StExtractingMetadata ==
    /\ pc = "st_meta"
    /\ \E ok \in BOOLEAN :
          /\ UpdateStatus(ok, StatusData(TRUE, CurName, 70, "extracting metadata", "None"),
                          "tika_meta", "tika_inner_exc")
          /\ text_content' = IF ok THEN text_content ELSE "none"
    /\ UNCHANGED <<attempt, result>>
    /\ TikaFrame

\* requests.put(tika_url/meta) in its own try block; then the empty-content
\* check replaces a short text by the placeholder
TikaMeta ==
    /\ pc = "tika_meta"
    /\ \E ok \in BOOLEAN :
          /\ log' = Logged(IF ok THEN "meta_ok" ELSE "meta_fail")
          /\ requests' = Sent(MetaRequestOf[CurKey][IF ok THEN "ok" ELSE "fail"])
          /\ result' = [status |-> "pending", method |-> "tika",
                        text |-> IF text_content = "short" THEN "placeholder" ELSE "text",
                        metadata |-> IF ok THEN "tika" ELSE "empty",
                        ocr_used |-> OcrUsedOf[CurKey]]
    /\ text_content' = "none"
    /\ pc' = "st_finalizing"
    /\ UNCHANGED <<status, attempt, store, ret>>
    /\ PipelineUnchanged

\* _update_status(progress=90, 'finalizing'), inside the try block; return
\* the result
StFinalizing ==
    /\ pc = "st_finalizing"
    /\ \E ok \in BOOLEAN :
          /\ UpdateStatus(ok, StatusData(TRUE, CurName, 90, "finalizing", "None"),
                          "st_storing", "tika_inner_exc")
          /\ result' = IF ok THEN [result EXCEPT !.status = "success"] ELSE NoResult
          /\ attempt' = IF ok THEN 0 ELSE attempt
    /\ UNCHANGED text_content
    /\ TikaFrame

\* whether a failed attempt is followed by another one
RetriesAfter(a) == a < max_retries - 1

\* the tail every failed attempt shares: before the last attempt report the
\* retry, sleep retry_delay and continue; at the last attempt report the
\* error and return None.  raises is where an exception of the status
\* update goes.
RetryOrGiveUp(what, raises) ==
    IF RetriesAfter(attempt)
    THEN \E ok \in BOOLEAN :
            /\ UpdateStatus(ok, StatusData(TRUE, CurName, 30 + attempt * 5,
                                           AttemptPhase(what, attempt), "None"),
                            "tika_sleep", raises)
            /\ attempt' = attempt
    ELSE \E ok \in BOOLEAN :
            /\ UpdateStatus(ok, Failed, "st_failed", raises)
            /\ attempt' = IF ok THEN 0 ELSE attempt

\* else: of response.status_code == 200, still inside the try block
TikaNon200 ==
    /\ pc = "tika_non200"
    /\ RetryOrGiveUp("retrying after error", "tika_inner_exc")
    /\ UNCHANGED <<text_content, result>>
    /\ TikaFrame

\* except requests.Timeout
TikaTimeout ==
    /\ pc = "tika_timeout"
    /\ RetryOrGiveUp("retrying after timeout", "tika_outer_exc")
    /\ UNCHANGED <<text_content, result>>
    /\ TikaFrame

\* except (requests.RequestException, ConnectionError)
TikaConnectionError ==
    /\ pc = "tika_connerr"
    /\ RetryOrGiveUp("retrying after connection error", "tika_outer_exc")
    /\ UNCHANGED <<text_content, result>>
    /\ TikaFrame

\* except Exception of the attempt's try block: what an exception raised
\* inside the block (a failed status update) reaches
TikaInnerExcept ==
    /\ pc = "tika_inner_exc"
    /\ RetryOrGiveUp("retrying after error", "tika_outer_exc")
    /\ UNCHANGED <<text_content, result>>
    /\ TikaFrame

\* time.sleep(self.retry_delay); continue
TikaSleep ==
    /\ pc = "tika_sleep"
    /\ log' = Logged("sleep")
    /\ attempt' = attempt + 1
    /\ pc' = "tika_attempt"
    /\ UNCHANGED <<status, text_content, result>>
    /\ TikaFrame

\* except Exception of _process_with_tika: report and return None; when
\* this status update raises too, the exception leaves _process_with_tika
\* and process_file
TikaOuterExcept ==
    /\ pc = "tika_outer_exc"
    /\ \E ok \in BOOLEAN :
          UpdateStatus(ok, Failed, "st_failed", "exc_pipeline")
    /\ attempt' = 0
    /\ UNCHANGED <<text_content, result>>
    /\ TikaFrame

(***************************************************************************)
(* Process start and restart                                               *)
(***************************************************************************)
EmptyHistory == [id \in Ids |-> [fails |-> 0, succ |-> FALSE]]

\* the state main() builds: a new processor (its status file says idle)
\* and a new watcher with an empty processed set and no failure counts
Started(watch) ==
    /\ pc = "loop"
    /\ watch_buckets = watch
    /\ processed_files = {}
    /\ failed_files = <<>>
    /\ new_files = <<>>
    /\ idx = 1
    /\ uploads_bucket = DefaultUploadsBucket
    /\ original_bucket = DefaultUploadsBucket
    /\ status = Idle
    /\ attempt = 0
    /\ text_content = "none"
    /\ result = NoResult
    /\ ret = "none"
    /\ log = <<>>
    /\ outcomes = <<>>
    /\ list_errors = {}
    /\ history = EmptyHistory
    /\ status_data = Idle
    /\ temp_file = NoFile
    /\ reader = NoFile
    /\ archive = NoArchive
    /\ member = 1
    /\ extracted_files = <<>>
    /\ all_text = <<>>
    /\ requests = <<>>
    /\ health_check_counter = 0
    /\ cycles = 0
    /\ probes = <<>>
    /\ printed = <<>>
    /\ HelperIdle

Init ==
    /\ \E c \in Configs : Started(c.watch) /\ store = c.store
    /\ tracing = FALSE
    /\ counting = FALSE

\* the process is killed at any point and started again with the same
\* configuration; the object store keeps what was written
Restart ==
    /\ pc # "loop" \/ processed_files # {} \/ failed_files # <<>>
    /\ pc' = "loop"
    /\ processed_files' = {}
    /\ failed_files' = <<>>
    /\ new_files' = <<>>
    /\ idx' = 1
    /\ uploads_bucket' = DefaultUploadsBucket
    /\ original_bucket' = DefaultUploadsBucket
    /\ status' = Idle
    /\ attempt' = 0
    /\ text_content' = "none"
    /\ result' = NoResult
    /\ ret' = "none"
    /\ log' = <<>>
    /\ requests' = <<>>
    /\ outcomes' = <<>>
    /\ list_errors' = {}
    /\ history' = EmptyHistory
    /\ health_check_counter' = 0
    /\ UNCHANGED <<watch_buckets, tracing, store, statusFileVars, archiveVars,
                   counting, cycles, probes, printed, helperVars>>

\* every step of the running process
Run ==
    \/ CheckForNewFiles
    \/ BeginFile
    \/ FinishCycle
    \/ HandleSuccess
    \/ HandleFailure
    \/ HandleException
    \/ HeadObject
    \/ StDownloading
    \/ GetObject
    \/ StGetFailed
    \/ ProcessFile
    \/ StFailed
    \/ StStoring
    \/ StoreProcessedContent
    \/ StCompleted
    \/ StStoreFailed
    \/ PipelineExcept
    \/ TikaBegin
    \/ TikaAttempt
    \/ TikaPut
    \/ StExtractingMetadata
    \/ TikaMeta
    \/ StFinalizing
    \/ TikaNon200
    \/ TikaTimeout
    \/ TikaConnectionError
    \/ TikaInnerExcept
    \/ TikaSleep
    \/ TikaOuterExcept

Next ==
    \/ Run
    \/ Restart

Spec == Init /\ [][Next]_vars

\* the same program watching the "scans" bucket alone, with the log of each
\* invocation's calls kept
InitCalls ==
    /\ Started(<<"scans">>)
    /\ store = Uploads({}, {"r.pdf"})
    /\ tracing = TRUE
    /\ counting = FALSE

SpecCalls == InitCalls /\ [][Next]_vars

\* one process that is never killed, watching the uploads bucket: main's
\* while True loop takes its next step whenever it has one
InitLive ==
    /\ Started(<<"tika-pipe">>)
    /\ store = Uploads({"n.md", "r.pdf"}, {})
    /\ tracing = FALSE
    /\ counting = FALSE

SpecLive == InitLive /\ [][Run]_vars /\ WF_vars(Run)

\* the uploads the remote extractor is called for: a PDF, an image, a type
\* the classifier does not know
RemoteKeys == {"x.pdf", "x.png", "x.unknownext"}

\* one process that is never killed, with one upload for the remote
\* extractor and the log of each invocation's calls and requests kept
InitRequests ==
    /\ Started(<<"tika-pipe">>)
    /\ \E k \in RemoteKeys : store = Uploads({k}, {})
    /\ tracing = TRUE
    /\ counting = FALSE

SpecRequests == InitRequests /\ [][Run]_vars

\* the same program with one upload in the uploads bucket, for every shape
\* of file name
InitFiles ==
    /\ Started(<<"tika-pipe">>)
    /\ \E k \in FileKeys : store = Uploads({k}, {})
    /\ tracing = FALSE
    /\ counting = FALSE

SpecFiles == InitFiles /\ [][Next]_vars

(***************************************************************************)
(* main: the periodic health check and the ways out of the loop            *)
(***************************************************************************)
MainFrame ==
    UNCHANGED <<watcherVars, uploads_bucket, store, status, attempt, text_content,
                result, ret, log, requests, statusFileVars, archiveVars, counting,
                health_check_counter, cycles, helperVars>>

\* processor._check_tika_health(): the probe answers 200, or answers
\* something else or raises; either way the method returns and main goes on
CheckTikaHealth ==
    /\ pc = "health"
    /\ \E ok \in BOOLEAN : probes' = Append(probes, [cycle |-> cycles, ok |-> ok])
    /\ pc' = "stats"
    /\ UNCHANGED printed
    /\ MainFrame

\* watcher.print_stats() in the loop: the statistics are logged, or the
\* query fails and a warning is logged instead; then main sleeps and loops
PrintStats ==
    /\ pc = "stats"
    /\ \E ok \in BOOLEAN :
          printed' = Append(printed, [kind |-> "periodic", cycle |-> cycles, ok |-> ok])
    /\ pc' = "loop"
    /\ UNCHANGED probes
    /\ MainFrame

\* the position of a process that is inside main's loop
InLoop == pc \notin {"interrupted", "exited", "killed"}

\* the frames below main are gone: the locals of process_new_files and of
\* the pipeline no longer exist
Unwound ==
    /\ new_files' = <<>>
    /\ idx' = 1
    /\ original_bucket' = DefaultUploadsBucket
    /\ attempt' = 0
    /\ text_content' = "none"
    /\ result' = NoResult
    /\ ret' = "none"
    /\ log' = <<>>
    /\ requests' = <<>>
    /\ outcomes' = <<>>
    /\ list_errors' = {}

\* the process has ended: the watcher, the processor and main's counter no
\* longer exist either
ProcessEnded ==
    /\ Unwound
    /\ processed_files' = {}
    /\ failed_files' = <<>>
    /\ uploads_bucket' = DefaultUploadsBucket
    /\ health_check_counter' = 0

\* SIGINT at any point of the loop: Python raises KeyboardInterrupt in the
\* main thread; no except Exception clause catches it, so it unwinds to
\* main's except KeyboardInterrupt
KeyboardInterrupt ==
    /\ InLoop
    /\ pc' = "interrupted"
    /\ Unwound
    /\ UNCHANGED <<watch_buckets, tracing, processed_files, failed_files, history,
                   uploads_bucket, store, status, statusFileVars, archiveVars,
                   mainVars, helperVars>>

\* except KeyboardInterrupt: watcher.print_stats(), then main returns and
\* the process exits
FinalStats ==
    /\ pc = "interrupted"
    /\ \E ok \in BOOLEAN :
          printed' = Append(printed, [kind |-> "final", cycle |-> cycles, ok |-> ok])
    /\ pc' = "exited"
    /\ ProcessEnded
    /\ UNCHANGED <<watch_buckets, tracing, history, store, status, statusFileVars,
                   archiveVars, counting, cycles, probes, helperVars>>

\* SIGTERM at any point of the loop: no handler is installed, so the
\* default disposition ends the process where it is
Terminate ==
    /\ InLoop
    /\ pc' = "killed"
    /\ ProcessEnded
    /\ UNCHANGED <<watch_buckets, tracing, history, store, status, statusFileVars,
                   archiveVars, counting, cycles, probes, printed, helperVars>>

\* every step of a process whose uploads are plain text (the remote
\* extractor is never called), with main's periodic check and the signals
MainNext ==
    \/ CheckForNewFiles
    \/ BeginFile
    \/ FinishCycle
    \/ HandleSuccess
    \/ HandleFailure
    \/ HandleException
    \/ HeadObject
    \/ StDownloading
    \/ GetObject
    \/ StGetFailed
    \/ ProcessFile
    \/ StStoring
    \/ StoreProcessedContent
    \/ StCompleted
    \/ StStoreFailed
    \/ PipelineExcept
    \/ CheckTikaHealth
    \/ PrintStats
    \/ KeyboardInterrupt
    \/ FinalStats
    \/ Terminate

\* main has built the processor and the watcher and printed the initial
\* statistics; it is about to enter its loop, whose cycles are counted
InitMain ==
    /\ Started(<<"tika-pipe">>)
    /\ store = Uploads({"n.md"}, {})
    /\ tracing = FALSE
    /\ counting = TRUE

SpecMain == InitMain /\ [][MainNext]_vars

(***************************************************************************)
(* _update_status step by step, with a concurrent reader of STATUS_FILE    *)
(***************************************************************************)
\* the documents the steps below are called with: idle, a failure, and the
\* retry update (progress = 30 + attempt * 5) of every attempt that is
\* followed by another one, for the default and for the largest max_retries
UpdateStatusInputs ==
    {Idle, Failed} \cup
    UNION {{StatusData(TRUE, "r.pdf", 30 + a * 5,
                       AttemptPhaseOf("retrying after error", a, n), "None")
              : a \in 0..(n - 2)} : n \in {max_retries, MaxRetriesArg}}

StatusFileFrame ==
    UNCHANGED <<watcherVars, uploads_bucket, store, attempt, text_content, result,
                ret, log, requests, archiveVars, mainVars, helperVars>>

\* an update that writes STATUS_FILE in place
MutOpenTempFile ==
    /\ pc = "us_call"
    /\ \E data \in UpdateStatusInputs :
          /\ status_data' = data
          /\ status' = Truncated
          /\ pc' = "us_write"
    /\ UNCHANGED <<temp_file, reader>>
    /\ StatusFileFrame

\* status_data = {...}; open(temp_file, 'w'): the temporary file is created
\* or truncated, or open raises.  The local status_data is kept only while
\* the call runs.
OpenTempFile ==
    /\ pc = "us_call"
    /\ \E data \in UpdateStatusInputs, ok \in BOOLEAN :
          /\ status_data' = IF ok THEN data ELSE Idle
          /\ temp_file' = IF ok THEN Truncated ELSE temp_file
          /\ pc' = IF ok THEN "us_write" ELSE "us_call"
    /\ UNCHANGED <<status, reader>>
    /\ StatusFileFrame

\* json.dump(status_data, f): the first bytes reach the file, or the write
\* raises
WriteTempFile ==
    /\ pc = "us_write"
    /\ \E ok \in BOOLEAN :
          /\ temp_file' = IF ok THEN PartOf(status_data) ELSE temp_file
          /\ status_data' = IF ok THEN status_data ELSE Idle
          /\ pc' = IF ok THEN "us_close" ELSE "us_call"
    /\ UNCHANGED <<status, reader>>
    /\ StatusFileFrame

\* the rest of the document is written and the with block closes the file,
\* or that raises
CloseTempFile ==
    /\ pc = "us_close"
    /\ \E ok \in BOOLEAN :
          /\ temp_file' = IF ok THEN status_data ELSE temp_file
          /\ status_data' = IF ok THEN status_data ELSE Idle
          /\ pc' = IF ok THEN "us_replace" ELSE "us_call"
    /\ UNCHANGED <<status, reader>>
    /\ StatusFileFrame

\* os.replace(temp_file, STATUS_FILE): the rename puts the temporary file
\* at the status path in one step, or raises
ReplaceStatusFile ==
    /\ pc = "us_replace"
    /\ \E ok \in BOOLEAN :
          /\ status' = IF ok THEN temp_file ELSE status
          /\ temp_file' = IF ok THEN NoFile ELSE temp_file
    /\ status_data' = Idle
    /\ pc' = "us_call"
    /\ UNCHANGED reader
    /\ StatusFileFrame

\* the dashboard reads STATUS_FILE, at any moment
ReadStatusFile ==
    /\ reader' = status
    /\ UNCHANGED <<pc, status, status_data, temp_file>>
    /\ StatusFileFrame

StatusFileNext ==
    \/ OpenTempFile
    \/ WriteTempFile
    \/ CloseTempFile
    \/ ReplaceStatusFile
    \/ ReadStatusFile

\* the processor after __init__ wrote the idle document, about to make any
\* sequence of status updates
InitStatusFile ==
    /\ pc = "us_call"
    /\ watch_buckets = <<"tika-pipe">>
    /\ processed_files = {}
    /\ failed_files = <<>>
    /\ new_files = <<>>
    /\ idx = 1
    /\ uploads_bucket = DefaultUploadsBucket
    /\ original_bucket = DefaultUploadsBucket
    /\ store = Uploads({}, {})
    /\ status = Idle
    /\ attempt = 0
    /\ text_content = "none"
    /\ result = NoResult
    /\ ret = "none"
    /\ tracing = FALSE
    /\ counting = FALSE
    /\ log = <<>>
    /\ outcomes = <<>>
    /\ list_errors = {}
    /\ history = EmptyHistory
    /\ status_data = Idle
    /\ temp_file = NoFile
    /\ reader = NoFile
    /\ archive = NoArchive
    /\ member = 1
    /\ extracted_files = <<>>
    /\ all_text = <<>>
    /\ requests = <<>>
    /\ health_check_counter = 0
    /\ cycles = 0
    /\ probes = <<>>
    /\ printed = <<>>
    /\ HelperIdle

SpecStatusFile == InitStatusFile /\ [][StatusFileNext]_vars

(***************************************************************************)
(* _process_archive step by step                                           *)
(***************************************************************************)
\* the listing of the result text names the first 20 entries
ListingLimit == 20
\* the metadata names the first 50 entries
MetadataLimit == 50
\* the number of entries of the largest container of the model
MaxEntries == 21

\* one entry of a container: content stands for its bytes (one per
\* character), readable for whether reading it succeeds, utf8 for whether
\* content.decode('utf-8') succeeds
Entry(name, isfile, readable, utf8, content) ==
    [name |-> name, isfile |-> isfile, readable |-> readable, utf8 |-> utf8,
     content |-> content]

\* the entry lists of the model: a text file and a binary one; a directory,
\* a nested text file, a text file that is not UTF-8, an entry whose read
\* raises and a text file after it; more entries than the listing names
MemberLists ==
    { << Entry("a.txt", TRUE, TRUE, TRUE, "hello"),
         Entry("b.bin", TRUE, TRUE, FALSE, "xyz") >>,
      << Entry("d/", FALSE, TRUE, TRUE, ""),
         Entry("d/n.md", TRUE, TRUE, TRUE, "notes"),
         Entry("bad.TXT", TRUE, TRUE, FALSE, "xy"),
         Entry("c.json", TRUE, FALSE, TRUE, "{}"),
         Entry("e.csv", TRUE, TRUE, TRUE, "1,2") >>,
      [i \in 1..MaxEntries |->
          Entry("f" \o ToString(i) \o ".bin", TRUE, TRUE, FALSE, "xx")] }

\* the file names of the model, one per archive extension of the table, and
\* the format the bytes of a well-formed file of that name have
ArchiveFormats ==
    { <<"a.zip", "zip">>, <<"a.tar", "tar">>, <<"a.tar.gz", "tar.gz">>,
      <<"A.TGZ", "tar.gz">>, <<"a.gz", "tar.gz">>, <<"a.rar", "rar">>,
      <<"a.7z", "7z">> }

\* the inputs of the archive extractor: every name with a well-formed
\* container of each entry list, and with bytes that are no container at
\* all ("corrupt")
Archives ==
    {[name |-> nf[1], format |-> nf[2], members |-> m] :
        nf \in ArchiveFormats, m \in MemberLists}
    \cup {[name |-> nf[1], format |-> "corrupt", members |-> <<>>] : nf \in ArchiveFormats}

\* the branch _process_archive takes for a file name: "zip", "tar" with the
\* mode of tarfile.open, or "none" when no branch matches
ArchiveBranch(filename) ==
    LET suffix == PathSuffix(Lower(filename))
    IN  IF suffix = ".zip" THEN "zip"
        ELSE IF suffix \in {".tar", ".tar.gz", ".tgz"}
             THEN (IF suffix \in {".tar.gz", ".tgz"} THEN "r:gz" ELSE "r")
        ELSE "none"

\* whether the opener of a branch reads bytes of a format: ZipFile reads
\* zip, tarfile mode 'r' reads a tar with any compression, mode 'r:gz' a
\* gzip-compressed tar
Opens(branch, format) ==
    \/ branch = "zip" /\ format = "zip"
    \/ branch = "r" /\ format \in {"tar", "tar.gz"}
    \/ branch = "r:gz" /\ format = "tar.gz"

\* the extensions whose entries are decoded as text
TextEntryExtensions == {".txt", ".md", ".csv", ".json", ".xml"}

\* whether the loop body is entered for an entry: zip skips names ending in
\* "/", tar takes member.isfile()
IsFileEntry(branch, e) ==
    IF branch = "zip" THEN ~EndsWith(e.name, "/") ELSE e.isfile

ArchiveFrame ==
    UNCHANGED <<watcherVars, uploads_bucket, store, status, attempt, text_content,
                ret, log, requests, statusFileVars, archive, mainVars, helperVars>>

\* the branch on path.suffix and the opening of the container: an opener
\* that raises ends the call with None; a name no branch matches is not
\* opened at all
OpenContainer ==
    /\ pc = "ar_open"
    /\ LET branch == ArchiveBranch(archive.name)
       IN  IF branch = "none"
           THEN pc' = "ar_result" /\ result' = result
           ELSE IF Opens(branch, archive.format)
           THEN pc' = "ar_member" /\ result' = result
           ELSE pc' = "ar_done" /\ result' = NoResult
    /\ UNCHANGED <<member, extracted_files, all_text>>
    /\ ArchiveFrame

\* an entry loop that lets a failed read leave the call
MutReadMember ==
    /\ pc = "ar_member"
    /\ member <= Len(archive.members)
    /\ LET e == archive.members[member]
       IN  IF IsFileEntry(ArchiveBranch(archive.name), e) /\ ~e.readable
           THEN /\ pc' = "ar_done"
                /\ result' = NoResult
                /\ UNCHANGED <<member, extracted_files, all_text>>
           ELSE /\ extracted_files' =
                      IF IsFileEntry(ArchiveBranch(archive.name), e)
                      THEN Append(extracted_files,
                                  [name |-> e.name, size |-> Len(e.content)])
                      ELSE extracted_files
                /\ all_text' =
                      IF /\ IsFileEntry(ArchiveBranch(archive.name), e)
                         /\ \E ext \in TextEntryExtensions : EndsWith(Lower(e.name), ext)
                         /\ e.utf8
                      THEN Append(all_text, <<"=== " \o e.name \o " ===", e.content>>)
                      ELSE all_text
                /\ member' = member + 1
                /\ UNCHANGED <<pc, result>>
    /\ ArchiveFrame

\* one turn of the loop over the entries: a file entry is read and recorded
\* with its name and size, and decoded when its name has a text extension;
\* a read that raises is logged and the entry left out; a failed decode
\* leaves the entry out of all_text only
ReadMember ==
    /\ pc = "ar_member"
    /\ member <= Len(archive.members)
    /\ LET e    == archive.members[member]
           file == IsFileEntry(ArchiveBranch(archive.name), e)
       IN  /\ extracted_files' =
                 IF file /\ e.readable
                 THEN Append(extracted_files, [name |-> e.name, size |-> Len(e.content)])
                 ELSE extracted_files
           /\ all_text' =
                 IF /\ file /\ e.readable
                    /\ \E ext \in TextEntryExtensions : EndsWith(Lower(e.name), ext)
                    /\ e.utf8
                 THEN Append(all_text, <<"=== " \o e.name \o " ===", e.content>>)
                 ELSE all_text
    /\ member' = member + 1
    /\ UNCHANGED <<pc, result>>
    /\ ArchiveFrame

\* "  - {name} ({size} bytes)" for the first ListingLimit entries
ListingLines(files) ==
    [i \in 1..Min(ListingLimit, Len(files)) |->
        "  - " \o files[i].name \o " (" \o ToString(files[i].size) \o " bytes)"]

\* the line that counts the entries the listing leaves out
OverflowLines(files) ==
    IF Len(files) > ListingLimit
    THEN <<"  ... and " \o ToString(Len(files) - ListingLimit) \o " more files">>
    ELSE <<>>

RECURSIVE Flatten(_)
Flatten(seqs) == IF seqs = <<>> THEN <<>> ELSE Head(seqs) \o Flatten(Tail(seqs))

\* result_text, as its lines (the empty lines left out)
ResultText(filename, files, texts) ==
    <<"Archive: " \o filename, "Extracted " \o ToString(Len(files)) \o " files:">>
        \o ListingLines(files) \o OverflowLines(files)
        \o (IF texts # <<>>
            THEN <<"=== Extracted Text Content ===">> \o Flatten(texts)
            ELSE <<>>)

\* the end of the with block (or no branch taken): the result is built and
\* returned
BuildArchiveResult ==
    /\ \/ pc = "ar_result"
       \/ pc = "ar_member" /\ member > Len(archive.members)
    /\ result' = [status |-> "success", method |-> "archive",
                  text |-> ResultText(archive.name, extracted_files, all_text),
                  metadata |->
                      [archive_type |-> PathSuffix(Lower(archive.name)),
                       files_count |-> Len(extracted_files),
                       extracted_files |->
                           SubSeq(extracted_files, 1,
                                  Min(MetadataLimit, Len(extracted_files)))],
                  ocr_used |-> FALSE]
    /\ pc' = "ar_done"
    /\ UNCHANGED <<member, extracted_files, all_text>>
    /\ ArchiveFrame

ArchiveNext ==
    \/ OpenContainer
    \/ ReadMember
    \/ BuildArchiveResult

\* _process_archive is called with any of the inputs
InitArchive ==
    /\ pc = "ar_open"
    /\ watch_buckets = <<"tika-pipe">>
    /\ processed_files = {}
    /\ failed_files = <<>>
    /\ new_files = <<>>
    /\ idx = 1
    /\ uploads_bucket = DefaultUploadsBucket
    /\ original_bucket = DefaultUploadsBucket
    /\ store = Uploads({}, {})
    /\ status = Idle
    /\ attempt = 0
    /\ text_content = "none"
    /\ result = NoResult
    /\ ret = "none"
    /\ tracing = FALSE
    /\ counting = FALSE
    /\ log = <<>>
    /\ outcomes = <<>>
    /\ list_errors = {}
    /\ history = EmptyHistory
    /\ status_data = Idle
    /\ temp_file = NoFile
    /\ reader = NoFile
    /\ archive \in Archives
    /\ member = 1
    /\ extracted_files = <<>>
    /\ all_text = <<>>
    /\ requests = <<>>
    /\ health_check_counter = 0
    /\ cycles = 0
    /\ probes = <<>>
    /\ printed = <<>>
    /\ HelperIdle

SpecArchive == InitArchive /\ [][ArchiveNext]_vars

(***************************************************************************)
(* The helper service (helper/uploader.py): control token, allowlist file  *)
(* and container control                                                   *)
(***************************************************************************)
\* the lines _write_allowlist puts before the entries
AllowlistHeader ==
    <<"# Dynamic allowlist for sensitive endpoints (e.g. /control/, /whitelist/*)",
      "# Managed by helper_index and/or tu-vm.sh.",
      "#",
      "# Format:",
      "#   allow 192.0.2.10;",
      "#   allow 2001:db8::1;",
      "#   deny all;",
      "">>

\* the addresses ipaddress.ip_address accepts, among those of the model, in
\* the form str() gives them
KnownIps == {"10.0.0.1", "10.0.0.2", "192.0.2.10", "2001:db8::1"}

\* str(ipaddress.ip_address(raw)), "invalid" when it raises ValueError:
\* hexadecimal digits of an IPv6 address come out in lower case
IpAddress(raw) == IF Lower(raw) \in KnownIps THEN Lower(raw) ELSE "invalid"

\* the de-duplication loops of _read_allowlist and _write_allowlist: the
\* first occurrence of every element, in order
RECURSIVE Dedup(_)
Dedup(seq) ==
    IF seq = <<>> THEN <<>>
    ELSE LET init == Dedup(SubSeq(seq, 1, Len(seq) - 1))
             last == seq[Len(seq)]
         IN  IF \E i \in DOMAIN init : init[i] = last THEN init ELSE Append(init, last)

\* the list _write_allowlist normalizes ips to: entries that are no address
\* are dropped
Normalized(ips) ==
    LET valid == SelectSeq(ips, LAMBDA raw : IpAddress(raw) # "invalid")
    IN  Dedup([i \in DOMAIN valid |-> IpAddress(valid[i])])

\* "\n".join(lines)
RECURSIVE Join(_)
Join(lines) ==
    IF lines = <<>> THEN ""
    ELSE IF Len(lines) = 1 THEN lines[1]
    ELSE lines[1] \o "\n" \o Join(Tail(lines))

\* the text _write_allowlist writes for ips: the header, one allow line per
\* normalized address, the deny-all line and a final newline
AllowlistText(ips) ==
    LET normalized == Normalized(ips)
    IN  Join(AllowlistHeader
                \o [i \in DOMAIN normalized |-> "allow " \o normalized[i] \o ";"]
                \o <<"deny all;", "">>)

\* str.splitlines() from position start on
RECURSIVE SplitFrom(_, _)
SplitFrom(text, start) ==
    IF start > Len(text) THEN <<>>
    ELSE LET ends == {i \in start..Len(text) : Chr(text, i) = "\n"}
         IN  IF ends = {} THEN <<SubSeq(text, start, Len(text))>>
             ELSE LET e == CHOOSE i \in ends : \A j \in ends : i <= j
                  IN  <<SubSeq(text, start, e - 1)>> \o SplitFrom(text, e + 1)

SplitLines(text) == SplitFrom(text, 1)

\* what a file holds after text is written at offset 0 of a descriptor
\* opened with 'w': the bytes beyond the text that another descriptor wrote
\* since the file was truncated stay
Overwritten(content, text) ==
    IF Len(text) >= Len(content) THEN text
    ELSE text \o SubSeq(content, Len(text) + 1, Len(content))

\* the value of one "allow" line as _read_allowlist takes it
AllowValue(line) ==
    Strip(RStrip(Strip(SubSeq(line, Len("allow ") + 1, Len(line)), " "), ";"), " ")

\* _read_allowlist on a file with this text
ParseAllowlist(text) ==
    LET lines    == SplitLines(text)
        stripped == [i \in DOMAIN lines |-> Strip(lines[i], " ")]
        allows   == SelectSeq(stripped,
                              LAMBDA l : l # "" /\ ~StartsWith(l, "#")
                                          /\ StartsWith(l, "allow "))
    IN  Dedup([i \in DOMAIN allows |-> AllowValue(allows[i])])

\* _read_allowlist: no file gives the empty list
ReadAllowlist ==
    IF allowlist_file = 0 THEN <<>> ELSE ParseAllowlist(inodes[allowlist_file])

\* a handler that requires the token whether or not CONTROL_TOKEN is set
MutAuthorized(header, query) ==
    (IF header \notin {"None", ""} THEN header ELSE query) = control_token

\* _authorized: the token is the X-Control-Token header or, when that is
\* absent or empty, the token query parameter; "None" is an absent value
Authorized(header, query) ==
    LET token == IF header \notin {"None", ""} THEN header ELSE query
    IN  IF control_token # "" THEN token = control_token ELSE FALSE

\* the entries of the allowlist file before any request
InitialIps == <<"192.0.2.10">>

\* the requests of the model: endpoint and argument (the ip of a whitelist
\* request, the action of a control request), with the token sent as a
\* header, as a query parameter, wrong, empty or not at all
Requests ==
    { [endpoint |-> e[1], arg |-> e[2], header |-> t[1], query |-> t[2]] :
        e \in { <<"whitelist_add", "10.0.0.1">>, <<"whitelist_add", " 10.0.0.2 ">>,
                <<"whitelist_add", "not-an-ip">>, <<"whitelist_remove", "192.0.2.10">>,
                <<"whitelist_remove", "10.0.0.2">>, <<"control_service", "start">>,
                <<"control_service", "stop">>, <<"control_service", "restart">> },
        t \in { <<"secret", "None">>, <<"None", "secret">>, <<"wrong", "secret">>,
                <<"None", "">>, <<"None", "None">> } }

HelperFrame ==
    UNCHANGED <<pc, watcherVars, uploads_bucket, store, status, attempt, text_content,
                result, ret, log, requests, statusFileVars, archiveVars, mainVars,
                control_token>>

\* handler h goes on with the fields of next changed
Goes(h, next) ==
    handlers' = [handlers EXCEPT ![h] =
                    [f \in DOMAIN @ |-> IF f \in DOMAIN next THEN next[f] ELSE @[f]]]

\* handler h returns a response with this status code
Responds(h, code) == Goes(h, [pc |-> "done", code |-> code])

\* handler h did this call
Did(h, call) == effects' = effects \cup {<<h, call>>}

\* a request arrives and Flask hands it to a handler thread
Receive(h) ==
    /\ handlers[h].pc = "idle"
    /\ \E r \in Requests :
          Goes(h, [pc |-> "auth", endpoint |-> r.endpoint, arg |-> r.arg,
                   header |-> r.header, query |-> r.query])
    /\ UNCHANGED <<allowlist_file, allowlist_tmp, inodes, effects>>
    /\ HelperFrame

\* if not _authorized(request): return 401, the first statement of
\* whitelist_add, whitelist_remove and control_service
Authorize(h) ==
    /\ handlers[h].pc = "auth"
    /\ IF Authorized(handlers[h].header, handlers[h].query)
       THEN Goes(h, [pc |-> IF handlers[h].endpoint = "control_service"
                            THEN "action" ELSE "parse_ip"])
       ELSE Responds(h, 401)
    /\ UNCHANGED <<allowlist_file, allowlist_tmp, inodes, effects>>
    /\ HelperFrame

\* ip = str(ipaddress.ip_address(ip.strip())), 400 when it is no address
ParseIp(h) ==
    /\ handlers[h].pc = "parse_ip"
    /\ LET ip == IpAddress(Strip(handlers[h].arg, " "))
       IN  IF ip = "invalid"
           THEN Responds(h, 400)
           ELSE Goes(h, [pc |-> "read", ip |-> ip])
    /\ UNCHANGED <<allowlist_file, allowlist_tmp, inodes, effects>>
    /\ HelperFrame

\* current = _read_allowlist() and the decision that follows: whitelist_add
\* appends ip unless it is there, whitelist_remove filters it out; a list
\* that does not change is answered at once
ReadCurrent(h) ==
    /\ handlers[h].pc = "read"
    /\ LET current == ReadAllowlist
           ip      == handlers[h].ip
           ips     == IF handlers[h].endpoint = "whitelist_add"
                      THEN (IF \E i \in DOMAIN current : current[i] = ip
                            THEN current ELSE Append(current, ip))
                      ELSE SelectSeq(current, LAMBDA x : x # ip)
       IN  IF ips = current
           THEN Goes(h, [pc |-> "done", code |-> 200, current |-> current])
           ELSE Goes(h, [pc |-> "open_tmp", current |-> current, ips |-> ips])
    /\ UNCHANGED <<allowlist_file, allowlist_tmp, inodes, effects>>
    /\ HelperFrame

\* tmp.write_text(...) of _write_allowlist, its open(tmp, 'w'): the file at
\* the temporary path is created, or truncated when it exists
OpenTmp(h) ==
    /\ handlers[h].pc = "open_tmp"
    /\ IF allowlist_tmp = 0
       THEN /\ inodes' = Append(inodes, "")
            /\ allowlist_tmp' = Len(inodes) + 1
       ELSE /\ inodes' = [inodes EXCEPT ![allowlist_tmp] = ""]
            /\ allowlist_tmp' = allowlist_tmp
    /\ Goes(h, [pc |-> "write_tmp", fd |-> allowlist_tmp'])
    /\ Did(h, "open_tmp")
    /\ UNCHANGED allowlist_file
    /\ HelperFrame

\* its write and close: the text goes to the file the descriptor is open
\* on, wherever its name is by now
WriteTmp(h) ==
    /\ handlers[h].pc = "write_tmp"
    /\ inodes' = [inodes EXCEPT ![handlers[h].fd] =
                     Overwritten(@, AllowlistText(handlers[h].ips))]
    /\ Goes(h, [pc |-> "replace", fd |-> 0])
    /\ Did(h, "write_tmp")
    /\ UNCHANGED <<allowlist_file, allowlist_tmp>>
    /\ HelperFrame

\* tmp.replace(p): the file at the temporary path gets the allowlist's
\* name; when another handler renamed it already, FileNotFoundError leaves
\* the handler, which has no try block, and Flask answers 500
ReplaceFile(h) ==
    /\ handlers[h].pc = "replace"
    /\ IF allowlist_tmp = 0
       THEN /\ Responds(h, 500)
            /\ UNCHANGED <<allowlist_file, allowlist_tmp, effects>>
       ELSE /\ allowlist_file' = allowlist_tmp
            /\ allowlist_tmp' = 0
            /\ Goes(h, [pc |-> "reload"])
            /\ Did(h, "replace")
    /\ UNCHANGED inodes
    /\ HelperFrame

\* _reload_nginx(): SIGHUP to the nginx container, whatever comes of it
ReloadNginx(h) ==
    /\ handlers[h].pc = "reload"
    /\ Goes(h, [pc |-> "respond"])
    /\ Did(h, "HUP")
    /\ UNCHANGED <<allowlist_file, allowlist_tmp, inodes>>
    /\ HelperFrame

\* return {"ok": True, "changed": True, "ips": _read_allowlist(), ...}
RespondChanged(h) ==
    /\ handlers[h].pc = "respond"
    /\ Goes(h, [pc |-> "done", code |-> 200, ips |-> ReadAllowlist])
    /\ UNCHANGED <<allowlist_file, allowlist_tmp, inodes, effects>>
    /\ HelperFrame

\* control_service: if action not in ('start', 'stop'): return 400
ValidateAction(h) ==
    /\ handlers[h].pc = "action"
    /\ IF handlers[h].arg \in {"start", "stop"}
       THEN Goes(h, [pc |-> "inspect"])
       ELSE Responds(h, 400)
    /\ UNCHANGED <<allowlist_file, allowlist_tmp, inodes, effects>>
    /\ HelperFrame

\* docker_inspect(container): no such container is 404, a container
\* already in the wanted state is answered without a call
Inspect(h) ==
    /\ handlers[h].pc = "inspect"
    /\ \E state \in {"absent", "running", "stopped"} :
          CASE state = "absent" -> Responds(h, 404)
            [] state = (IF handlers[h].arg = "start" THEN "running" ELSE "stopped")
                  -> Responds(h, 200)
            [] OTHER -> Goes(h, [pc |-> "post"])
    /\ UNCHANGED <<allowlist_file, allowlist_tmp, inodes, effects>>
    /\ HelperFrame

\* docker_post(/containers/<container>/<action>): 204 and 304 are success,
\* another status code is passed on (500 when it is below 400), an
\* exception is answered 500
DockerPost(h) ==
    /\ handlers[h].pc = "post"
    /\ \E status_code \in {204, 304, 200, 404, 409, 500, 0} :
          Responds(h, CASE status_code \in {204, 304} -> 200
                        [] status_code >= 400 -> status_code
                        [] OTHER -> 500)
    /\ Did(h, handlers[h].arg)
    /\ UNCHANGED <<allowlist_file, allowlist_tmp, inodes>>
    /\ HelperFrame

HelperNext ==
    \E h \in Handlers :
        \/ Receive(h)
        \/ Authorize(h)
        \/ ParseIp(h)
        \/ ReadCurrent(h)
        \/ OpenTmp(h)
        \/ WriteTmp(h)
        \/ ReplaceFile(h)
        \/ ReloadNginx(h)
        \/ RespondChanged(h)
        \/ ValidateAction(h)
        \/ Inspect(h)
        \/ DockerPost(h)

\* the helper service started with or without CONTROL_TOKEN, an allowlist
\* file written earlier by _write_allowlist, and two requests to come
InitHelper ==
    /\ pc = "helper"
    /\ watch_buckets = <<"tika-pipe">>
    /\ processed_files = {}
    /\ failed_files = <<>>
    /\ new_files = <<>>
    /\ idx = 1
    /\ uploads_bucket = DefaultUploadsBucket
    /\ original_bucket = DefaultUploadsBucket
    /\ store = Uploads({}, {})
    /\ status = Idle
    /\ attempt = 0
    /\ text_content = "none"
    /\ result = NoResult
    /\ ret = "none"
    /\ tracing = FALSE
    /\ counting = FALSE
    /\ log = <<>>
    /\ outcomes = <<>>
    /\ list_errors = {}
    /\ history = EmptyHistory
    /\ status_data = Idle
    /\ temp_file = NoFile
    /\ reader = NoFile
    /\ archive = NoArchive
    /\ member = 1
    /\ extracted_files = <<>>
    /\ all_text = <<>>
    /\ requests = <<>>
    /\ health_check_counter = 0
    /\ cycles = 0
    /\ probes = <<>>
    /\ printed = <<>>
    /\ control_token \in {"", "secret"}
    /\ allowlist_file = 1
    /\ allowlist_tmp = 0
    /\ inodes = <<AllowlistText(InitialIps)>>
    /\ handlers = [h \in Handlers |-> NoRequest]
    /\ effects = {}

SpecHelper == InitHelper /\ [][HelperNext]_vars

(***************************************************************************)
(* Claims                                                                  *)
(***************************************************************************)
Range(f) == {f[i] : i \in DOMAIN f}

OutputExists == Exists(processed_bucket, OutputKey(CurKey))

\* C1: no extraction (text decode, archive expansion, PUT /tika) is started
\* for a candidate while an object exists at its output key, whatever the
\* existence check answered
C1_NoExtractionWhenOutputExists ==
    pc = "process_file" => ~OutputExists

\* C2: when the existence check on the output key succeeds, the invocation
\* returns True having made no other call (no GetObject, no PUT /tika, no
\* PUT /meta, no PutObject), and that step leaves the object store and the
\* status file as they are
C2_ExistingOutputIsNoOp ==
    /\ [](pc = "handle" /\ log # <<>> /\ log[1] = "head_found"
            => ret = "true" /\ log = <<"head_found">>)
    /\ [][pc = "head" /\ log' = <<"head_found">>
            => store' = store /\ status' = status]_vars

C2_Witness ==
    /\ pc = "handle"
    /\ log = <<"head_found">>
    /\ ret = "true"
    /\ store["tika-pipe"]["r.txt"].src = CurId

\* C3: a candidate whose every invocation failed (False or an exception) is
\* handed to the pipeline Cap times and no more: with the Cap-th failure it
\* is in processed_files and has no failed_files entry
C3_FailingCandidateDisposedAtCap ==
    \A id \in Ids :
        ~history[id].succ /\ history[id].fails >= Cap
            => /\ history[id].fails = Cap
               /\ id \in processed_files
               /\ id \notin DOMAIN failed_files

\* the PUT /tika requests and the sleeps of the running invocation, in order
TikaCalls ==
    SelectSeq(log, LAMBDA e : e \in {"tika_ok", "tika_short", "tika_fail", "sleep"})

\* n failed requests with a sleep between each two
FailedAttempts(n) ==
    [i \in 1..(2 * n - 1) |-> IF i % 2 = 1 THEN "tika_fail" ELSE "sleep"]

\* C4: when every PUT /tika fails, _process_with_tika returns None after
\* exactly max_retries requests, with one sleep between each two of them and
\* none after the last
C4_RetryExhaustion ==
    pc = "st_failed" /\ Range(log) \cap {"tika_ok", "tika_short"} = {}
        => TikaCalls = FailedAttempts(max_retries)

\* the same, for the invocations in which no status update failed
C4_RetryExhaustionStatusWritable ==
    pc = "st_failed" /\ Range(log) \cap {"tika_ok", "tika_short", "status_fail"} = {}
        => TikaCalls = FailedAttempts(max_retries)

\* C5: whatever the outcomes of the earlier candidates of a cycle, the for
\* loop reaches every later one (each candidate before position idx had its
\* invocation and its outcome handled), and the thread never leaves the
\* main loop
C5_EveryCandidateInvoked ==
    /\ pc # "stopped"
    /\ idx <= Len(new_files) + 1
    /\ pc = "file" => Len(outcomes) = idx - 1
    /\ pc \notin {"file", "loop"} => Len(outcomes) = idx - 1 /\ idx <= Len(new_files)

C5_Witness ==
    /\ pc = "file"
    /\ idx > Len(new_files)
    /\ Len(outcomes) >= 2
    /\ outcomes[1] = "exc"
    /\ outcomes[2] \in {"true", "false"}

\* the calls of an invocation in which nothing but status updates failed
GoodCalls ==
    {"head_absent", "get_ok", "extract_tika", "tika_ok", "meta_ok", "put_ok",
     "status_fail", "sleep"}

\* C6: a failing status write changes nothing else: an invocation in which
\* every other call succeeds stores the text and returns True
C6_StatusFailureTolerated ==
    pc = "handle" /\ Range(log) \subseteq GoodCalls
        => /\ ret = "true"
           /\ OutputExists
           /\ store[processed_bucket][OutputKey(CurKey)].src = CurId

\* C7: at the end of a polling cycle every failed_files entry is between 1
\* and Cap - 1
C7_FailureCountsBelowCap ==
    pc = "loop" =>
        \A id \in DOMAIN failed_files :
            1 <= failed_files[id] /\ failed_files[id] <= Cap - 1

\* C8: handling an outcome for candidate id: on success id is in
\* processed_files and has no failed_files entry; on a failure below the cap
\* its count is one more than before and id is not in processed_files; no
\* other candidate's membership or count changes
C8_OutcomeHandling ==
    [][pc = "handle" /\ pc' = "file" =>
        /\ ret = "true" =>
              CurId \in processed_files' /\ CurId \notin DOMAIN failed_files'
        /\ ret \in {"false", "exc"} /\ Count(CurId) + 1 < Cap =>
              /\ CurId \in DOMAIN failed_files'
              /\ failed_files'[CurId] = Count(CurId) + 1
              /\ CurId \notin processed_files'
        /\ \A o \in Ids \ {CurId} :
              /\ o \in processed_files' <=> o \in processed_files
              /\ o \in DOMAIN failed_files' <=> o \in DOMAIN failed_files
              /\ o \in DOMAIN failed_files => failed_files'[o] = failed_files[o]
      ]_vars

\* C9: once an id is in processed_files the pipeline is not invoked for it
\* again in this process
C9_ProcessedNeverInvokedAgain ==
    pc \notin {"loop", "file"} => CurId \notin processed_files

\* the other half of C9: processed_files only grows while the process lives
C9_ProcessedOnlyGrows ==
    [][processed_files \subseteq processed_files' \/ pc' = "loop"]_vars

\* C10: the listing of a cycle considers every object of every watched
\* bucket whose listing did not fail: each one the filter keeps is a
\* candidate of the cycle
C10_ListingExaminesEveryObject ==
    pc = "file" /\ idx = 1 =>
        \A i \in (1..Len(watch_buckets)) \ list_errors :
            \A k \in DOMAIN store[watch_buckets[i]] :
                IsCandidate(watch_buckets[i], k)
                    => <<watch_buckets[i], k>> \in Range(new_files)

\* the static part of the watcher's filter: what it keeps of a listing
\* whatever processed_files holds
FilterKeeps(object_key) ==
    /\ ~EndsWith(Lower(object_key), ".txt")
    /\ \A ext \in {".lock", ".tmp", ".swp", ".processed"} :
          ~EndsWith(Lower(object_key), ext)
    /\ GetFileType(object_key) # "skip"

\* the keys of the model that the filter keeps
KeptKeys == {k \in Range(KeyOrder) : FilterKeeps(k)}

\* a cycle whose listings all answered has just started
ListingAnswered == pc = "file" /\ idx = 1 /\ list_errors = {}

\* C11: when listings keep answering and every invocation returns (none
\* raises), every object of a watched bucket that the filter keeps is
\* eventually in processed_files, and every polling cycle ends
C11_EveryCandidateEventuallyProcessed ==
    ([]<>ListingAnswered /\ [](ret # "exc"))
        => /\ \A b \in {"tika-pipe", "scans"} : \A k \in KeptKeys :
                [](b \in Range(watch_buckets) /\ Exists(b, k)
                      => <>(FileId(b, k) \in processed_files))
           /\ (pc = "file" ~> pc = "loop")

\* s without its last Len(e) characters
StripSuffix(s, e) == SubSeq(s, 1, Len(s) - Len(e))

\* the extensions of the table that have more than one part
MultiPartExtensions ==
    {SUPPORTED_EXTENSIONS[i][1] : i \in {j \in DOMAIN SUPPORTED_EXTENSIONS :
                                            RFind(SUPPORTED_EXTENSIONS[j][1], ".") > 1}}

\* C12: for a key that ends in a multi-part extension of the table, the key
\* the existence check tests and the key the result is written to are both
\* the key with that whole extension replaced by .txt (a.tar.gz -> a.txt)
C12_WholeExtensionReplaced ==
    pc \in {"head", "put"} =>
        \A e \in MultiPartExtensions :
            EndsWith(Lower(CurKey), e) =>
                /\ OutputKey(CurKey) = StripSuffix(CurKey, e) \o ".txt"
                /\ StoreOutputKey(CurKey) = StripSuffix(CurKey, e) \o ".txt"

\* the parent path of a key exactly as written, with its separator
ParentAsWritten(key) == SubSeq(key, 1, RFind(key, "/"))

\* C13: the key the existence check tests and the key the result is written
\* to are the same, and it is the parent path of the input exactly as
\* written, the base name without its extension, and .txt
C13_ParentPathKept ==
    pc \in {"head", "put"} =>
        /\ OutputKey(CurKey) = ParentAsWritten(CurKey) \o PathStem(CurKey) \o ".txt"
        /\ StoreOutputKey(CurKey) = OutputKey(CurKey)

\* whether the name ends in an extension of the table
HasKnownExtension(filename) ==
    \E i \in DOMAIN SUPPORTED_EXTENSIONS :
        EndsWith(Lower(filename), SUPPORTED_EXTENSIONS[i][1])

C15_TxtUploadIsCandidate ==
    (/\ ListingAnswered
     /\ Exists("tika-pipe", "x.txt")
     /\ store["tika-pipe"]["x.txt"].src = "upload"
     /\ FileId("tika-pipe", "x.txt") \notin processed_files)
        => /\ FileTypeOf["x.txt"] = "text"
           /\ <<"tika-pipe", "x.txt">> \in Range(new_files)

\* the running invocation made exactly one answered PUT /tika, call, and it
\* was its last request: nothing was retried after it
LastRequestWas(call) ==
    /\ TikaCalls # <<>>
    /\ TikaCalls[Len(TikaCalls)] = call
    /\ \A i \in 1..(Len(TikaCalls) - 1) : TikaCalls[i] \in {"tika_fail", "sleep"}

\* the output object of the running invocation's candidate
Output == store[processed_bucket][OutputKey(CurKey)]

\* C16: when PUT /tika answered 200 with an empty or short body, the
\* extractor returns a success result holding the placeholder and no further
\* request is made; the invocation then stores the placeholder and returns
\* True (unless put_object itself fails)
C16_ShortBodyIsPlaceholderSuccess ==
    /\ "tika_short" \in Range(log) /\ pc \in {"st_storing", "put", "st_completed"}
          => result.status = "success" /\ result.text = "placeholder"
    /\ "tika_short" \in Range(log) /\ "put_fail" \notin Range(log) /\ pc = "handle"
          => /\ LastRequestWas("tika_short")
             /\ ret = "true"
             /\ OutputExists
             /\ Output = [src |-> CurId, text |-> "placeholder"]

\* the same, for the invocations in which no status update failed
C16_ShortBodyStatusWritable ==
    "status_fail" \notin Range(log) => C16_ShortBodyIsPlaceholderSuccess

\* C17: when the text request was answered and PUT /meta failed, the
\* extractor returns a success result with an empty metadata map and the
\* text request is not repeated; the invocation returns True (unless
\* put_object itself fails)
C17_MetadataFailureIsNotFatal ==
    /\ "meta_fail" \in Range(log) /\ pc \in {"st_storing", "put", "st_completed"}
          => result.status = "success" /\ result.metadata = "empty"
    /\ "meta_fail" \in Range(log) /\ "put_fail" \notin Range(log) /\ pc = "handle"
          => /\ LastRequestWas("tika_ok") \/ LastRequestWas("tika_short")
             /\ ret = "true"
             /\ OutputExists
             /\ Output.src = CurId

\* the same, for the invocations in which no status update failed
C17_MetadataFailureStatusWritable ==
    "status_fail" \notin Range(log) => C17_MetadataFailureIsNotFatal

\* C18: after an invocation that returned False the status record says
\* processing = false, current_file = null, progress = 0 and holds an error;
\* an invocation whose max_retries requests all failed reports that error,
\* returns False and writes no output
C18_FailureIsReported ==
    /\ pc = "handle" /\ ret = "false"
          => /\ status.processing = FALSE
             /\ status.current_file = "None"
             /\ status.progress = 0
             /\ status.error # "None"
    /\ pc = "handle" /\ TikaCalls = FailedAttempts(max_retries)
          => /\ ret = "false"
             /\ status.error # "None"
             /\ "put_ok" \notin Range(log)

\* the same, for the invocations in which no status update failed
C18_FailureIsReportedStatusWritable ==
    "status_fail" \notin Range(log) => C18_FailureIsReported

\* whether a file content is a whole status document
IsDocument(content) == DOMAIN content = DOMAIN Idle

\* C19: STATUS_FILE always holds a whole document, so whatever the reader
\* obtains, at any moment of any sequence of updates, is a whole document:
\* the one before the update in progress or the one after it
C19_ReaderSeesWholeDocument ==
    /\ [](IsDocument(status) /\ (reader = NoFile \/ IsDocument(reader)))
    /\ [][reader' # reader => reader' \in {status, status'}]_vars

\* an update is half written while the reader holds the previous document
C19_Witness ==
    /\ pc = "us_close"
    /\ temp_file = PartOf(status_data)
    /\ status_data # status
    /\ status # Idle
    /\ reader = status

\* C20: every status document written has a progress between 0 and 100,
\* whatever max_retries and the attempt number of a retry update are
C20_ProgressClamped ==
    /\ 0 <= status.progress /\ status.progress <= 100
    /\ 0 <= status_data.progress /\ status_data.progress <= 100
    /\ IsDocument(temp_file) => 0 <= temp_file.progress /\ temp_file.progress <= 100

\* the retry update of an attempt whose 30 + attempt * 5 exceeds 100 is in
\* the status file
C20_Witness ==
    \E a \in 0..(MaxRetriesArg - 2) :
        /\ 30 + a * 5 > 100
        /\ status.status = AttemptPhaseOf("retrying after error", a, MaxRetriesArg)
        /\ status.progress = 100

\* the container of the running call is well formed: its bytes are a
\* container of the format its name announces
WellFormed == archive.format # "corrupt"

\* the entries of the container that are not directories
FileEntries == SelectSeq(archive.members, LAMBDA e : e.isfile)

\* the entries whose content the text aggregate is to hold: files that can
\* be read, have a text-like extension and decode as UTF-8
TextEntries ==
    SelectSeq(FileEntries,
              LAMBDA e : /\ e.readable /\ e.utf8
                         /\ \E ext \in TextEntryExtensions : EndsWith(Lower(e.name), ext))

\* the line of the entry listing for an entry
ListingLine(e) == "  - " \o e.name \o " (" \o ToString(Len(e.content)) \o " bytes)"

\* the text holds the content of entry e right under a header naming e
HasSection(text, e) ==
    \E i \in 1..(Len(text) - 1) :
        text[i] = "=== " \o e.name \o " ===" /\ text[i + 1] = e.content

\* the lines of the text that are entry headers
SectionHeaders(text) ==
    SelectSeq(text, LAMBDA l : StartsWith(l, "=== ") /\ l # "=== Extracted Text Content ===")

\* C21: for a well-formed container named .tar, .tar.gz or .tgz, the result
\* is a success that lists every UTF-8 text entry and holds its decoded
\* content under a header naming it
C21_TarContainersExpanded ==
    (/\ pc = "ar_done"
     /\ WellFormed
     /\ \E ext \in {".tar", ".tar.gz", ".tgz"} : EndsWith(Lower(archive.name), ext))
        => /\ result.status = "success"
           /\ \A i \in DOMAIN TextEntries :
                 /\ ListingLine(TextEntries[i]) \in Range(result.text)
                 /\ HasSection(result.text, TextEntries[i])

\* C22: for a zip, every entry that is not a directory is in the listing
\* with its name and size, the summary line counts those entries, and the
\* text aggregate holds exactly the entries with a text-like extension that
\* decode as UTF-8, each under its header
C22_EveryZipEntryListed ==
    (pc = "ar_done" /\ WellFormed /\ EndsWith(Lower(archive.name), ".zip"))
        => /\ result.status = "success"
           /\ \A i \in DOMAIN FileEntries :
                 ListingLine(FileEntries[i]) \in Range(result.text)
           /\ result.text[2] = "Extracted " \o ToString(Len(FileEntries)) \o " files:"
           /\ \A i \in DOMAIN TextEntries : HasSection(result.text, TextEntries[i])
           /\ Len(SectionHeaders(result.text)) = Len(TextEntries)

\* the entries of the container that are not directories and can be read
ReadableEntries == SelectSeq(FileEntries, LAMBDA e : e.readable)

\* C22 as amended: the summary line counts the entries that are not
\* directories and can be read, the listing names the first ListingLimit of
\* them with name and size, in order, and counts the rest in one line, and the text
\* aggregate holds exactly those of them with a text-like extension that
\* decode as UTF-8, each under its header
C22_ReadableZipEntriesListed ==
    (pc = "ar_done" /\ WellFormed /\ EndsWith(Lower(archive.name), ".zip"))
        => /\ result.status = "success"
           /\ result.text[2] = "Extracted " \o ToString(Len(ReadableEntries)) \o " files:"
           /\ \A i \in DOMAIN ReadableEntries :
                 i <= ListingLimit => result.text[2 + i] = ListingLine(ReadableEntries[i])
           /\ Len(ReadableEntries) > ListingLimit =>
                 result.text[3 + ListingLimit] =
                     "  ... and " \o ToString(Len(ReadableEntries) - ListingLimit)
                         \o " more files"
           /\ \A i \in DOMAIN TextEntries : HasSection(result.text, TextEntries[i])
           /\ Len(SectionHeaders(result.text)) = Len(TextEntries)

\* the zip with an unreadable and an undecodable entry has been expanded
C22_Witness ==
    /\ pc = "ar_done"
    /\ archive.name = "a.zip"
    /\ Len(archive.members) = 5
    /\ result.status = "success"
    /\ result.text[2] = "Extracted 3 files:"
    /\ Len(SectionHeaders(result.text)) = 2

\* C23: the archive extractor returns None exactly when the container is
\* unreadable, whatever the archive extension of the name; no entry makes
\* it fail
C23_FailsExactlyOnUnreadableContainer ==
    pc = "ar_done" => (result = NoResult <=> ~WellFormed)

\* the put_object calls of the running invocation
PutCalls == SelectSeq(log, LAMBDA e : e \in {"put_ok", "put_fail"})

\* C24: an invocation makes at most one put_object; when it fails the
\* invocation makes no other and returns False, and the watcher counts the
\* failure (or, at the cap, disposes of the candidate)
C24_SinglePutNoLocalRetry ==
    /\ [](Len(PutCalls) <= 1)
    /\ [](pc = "handle" /\ "put_fail" \in Range(log) => ret = "false")
    /\ [][pc = "handle" /\ "put_fail" \in Range(log) =>
            \/ /\ CurId \in DOMAIN failed_files'
               /\ failed_files'[CurId] = Count(CurId) + 1
            \/ /\ Count(CurId) + 1 >= Cap
               /\ CurId \in processed_files'
            \/ pc' = "loop"]_vars

\* the same, for the invocations in which no status update failed
C24_SinglePutStatusWritable ==
    /\ [](Len(PutCalls) <= 1)
    /\ [](pc = "handle" /\ "put_fail" \in Range(log) /\ "status_fail" \notin Range(log)
            => ret = "false")
    /\ [][pc = "handle" /\ "put_fail" \in Range(log) =>
            \/ /\ CurId \in DOMAIN failed_files'
               /\ failed_files'[CurId] = Count(CurId) + 1
            \/ /\ Count(CurId) + 1 >= Cap
               /\ CurId \in processed_files'
            \/ pc' = "loop"]_vars

\* the PUT /tika requests of the running invocation, in order
TextRequests == SelectSeq(requests, LAMBDA r : r.url = "/tika")

\* C25: a PUT /tika request carries the OCR strategy header, the 900000 ms
\* header and the 900 s timeout exactly when its content type is
\* application/pdf or starts with image/, and the 60 s timeout and neither
\* header otherwise; all PUT /tika requests of one invocation have the same
\* timeout
C25_OcrTimeoutFixedPerExtraction ==
    /\ \A i \in DOMAIN TextRequests :
          LET r == TextRequests[i]
          IN  IF r.content_type = "application/pdf" \/ StartsWith(r.content_type, "image/")
              THEN /\ r.ocr_strategy = "ocr_and_text_extraction"
                   /\ r.timeout_millis = "900000"
                   /\ r.timeout = 900
              ELSE /\ r.ocr_strategy = "None"
                   /\ r.timeout_millis = "None"
                   /\ r.timeout = 60
    /\ \A i, j \in DOMAIN TextRequests : TextRequests[i].timeout = TextRequests[j].timeout

\* an image's request timed out and was followed by another
C25_Witness ==
    /\ Len(TextRequests) = max_retries
    /\ TextRequests[1].content_type = "image/png"
    /\ TextRequests[1].answer = "timeout"
    /\ TextRequests[2].answer = "timeout"
    /\ TextRequests[3].timeout = 900

\* the calls of print_stats main's loop made
PeriodicStats == SelectSeq(printed, LAMBDA e : e.kind = "periodic")

\* the positions of main between counting a cycle and sleeping
Checking == {"health", "stats"}

\* C26: the i-th health probe and the i-th statistics log of the loop run
\* in cycle 60 * i, none is left out, and whatever the outcome of the probe
\* and of the statistics query main goes on to the next polling cycle
C26_HealthCheckEvery60thCycle ==
    /\ [](/\ \A i \in DOMAIN probes : probes[i].cycle = 60 * i
          /\ \A i \in DOMAIN PeriodicStats : PeriodicStats[i].cycle = 60 * i)
    /\ [](InLoop /\ pc \notin Checking
            => Len(probes) = cycles \div 60 /\ Len(PeriodicStats) = cycles \div 60)
    /\ [](pc = "health"
            => /\ cycles % 60 = 0
               /\ Len(probes) = (cycles \div 60) - 1
               /\ Len(PeriodicStats) = (cycles \div 60) - 1)
    /\ [](pc = "stats"
            => /\ cycles % 60 = 0
               /\ Len(probes) = cycles \div 60
               /\ Len(PeriodicStats) = (cycles \div 60) - 1)
    /\ [][pc = "health" /\ pc' \notin {"interrupted", "killed"} => pc' = "stats"]_vars
    /\ [][pc = "stats" /\ pc' \notin {"interrupted", "killed"} => pc' = "loop"]_vars

\* cycle 121 has begun after two checks, the first of which failed twice
C26_Witness ==
    /\ pc = "file"
    /\ cycles = 2 * 60
    /\ Len(probes) = 2
    /\ ~probes[1].ok
    /\ Len(PeriodicStats) = 2
    /\ ~PeriodicStats[1].ok

\* the calls of print_stats main made on its way out
FinalStatsLogged == SelectSeq(printed, LAMBDA e : e.kind = "final")

\* C27: a process that a signal took out of the loop has logged the final
\* statistics exactly once, and from the moment the signal arrives no
\* polling cycle starts or ends
C27_InterruptFlushesFinalStatistics ==
    /\ [](pc \in {"exited", "killed"} => Len(FinalStatsLogged) = 1)
    /\ [](InLoop => Len(FinalStatsLogged) = 0)
    /\ [][~InLoop => cycles' = cycles /\ pc' \in {"interrupted", "exited", "killed"}]_vars

\* the same, for the keyboard interrupt alone
C27_KeyboardInterruptFlushesFinalStatistics ==
    /\ [](pc = "exited" => Len(FinalStatsLogged) = 1)
    /\ [](InLoop => Len(FinalStatsLogged) = 0)
    /\ [][~InLoop => cycles' = cycles /\ pc' \in {"interrupted", "exited", "killed"}]_vars

\* C28: an invocation returns True only when the object at the candidate's
\* output key holds the text extracted from that candidate, never the text
\* written for another candidate with the same output key
C28_SuccessMeansOwnOutput ==
    pc = "handle" /\ ret = "true" => OutputExists /\ Output.src = CurId

\* C29: every key the pipeline wrote ends in .txt and the watcher's filter
\* drops it, so no candidate of any cycle is an object the pipeline wrote,
\* also when the output bucket is a watched bucket
C29_OutputsAreNeverCandidates ==
    /\ \A b \in DOMAIN store : \A k \in DOMAIN store[b] :
          store[b][k].src # "upload"
              => /\ b = processed_bucket
                 /\ EndsWith(k, ".txt")
                 /\ k \notin KeptKeys
    /\ \A i \in DOMAIN new_files :
          /\ Exists(new_files[i][1], new_files[i][2])
          /\ store[new_files[i][1]][new_files[i][2]].src = "upload"

\* a cycle listed the watched output bucket while it held an output, and
\* kept only the upload
C29_Witness ==
    /\ pc = "file"
    /\ idx = 1
    /\ list_errors = {}
    /\ watch_buckets[1] = processed_bucket
    /\ Exists(processed_bucket, "r.txt")
    /\ store[processed_bucket]["r.txt"].src # "upload"
    /\ "r.txt" \in Range(Listed(processed_bucket))
    /\ new_files # <<>>

\* C30: no file id is in processed_files and in failed_files at once
C30_ProcessedAndFailedDisjoint ==
    processed_files \cap DOMAIN failed_files = {}

\* the same, for the lists of watched buckets that name no bucket twice
C30_DisjointForDistinctBuckets ==
    (\A i, j \in DOMAIN watch_buckets : watch_buckets[i] = watch_buckets[j] => i = j)
        => C30_ProcessedAndFailedDisjoint

\* a pipeline invocation is executing: process_new_files is inside its call
\* of process_file_from_minio
Executing ==
    pc \notin {"loop", "file", "handle", "health", "stats",
               "interrupted", "exited", "killed"}

\* C31: whenever the status record says processing = true its current_file
\* is the name of the one candidate whose invocation is executing, and
\* whenever no invocation is executing (between candidates and between
\* cycles) it says processing = false and current_file = null
C31_StatusAgreesWithFileInProgress ==
    /\ status.processing => Executing /\ status.current_file = CurName
    /\ ~Executing => ~status.processing /\ status.current_file = "None"

\* the same, for every record that is written: a status update that
\* succeeds leaves a record that agrees with the file in progress
C31_EveryWrittenRecordAgrees ==
    [][status' # status =>
          /\ status'.processing => Executing' /\ status'.current_file = CurName
          /\ ~Executing' => ~status'.processing /\ status'.current_file = "None"]_vars

\* C32: process_new_files leaves processor.uploads_bucket as it found it,
\* whatever the outcomes of the invocations it made.  The process starts
\* with the configured uploads bucket, so every call returning with the
\* value it was called with means the configured value after every call.
C32_UploadsBucketRestored ==
    pc = "loop" => uploads_bucket = DefaultUploadsBucket

\* the same, for the invocations that returned: after a true or false
\* outcome the processor has the bucket saved before the invocation
C32_RestoredAfterReturnedOutcome ==
    [][pc = "handle" /\ ret # "exc" /\ pc' = "file"
          => uploads_bucket' = original_bucket /\ original_bucket' = original_bucket]_vars

\* the candidates a listing of the watched bucket at position i yields
CandidatesAt(i) ==
    {<<watch_buckets[i], k>> : k \in {k \in Range(Listed(watch_buckets[i])) :
        k \in KeptKeys /\ FileId(watch_buckets[i], k) \notin processed_files}}

\* C33: in every cycle, whichever listings raise (in this cycle or in an
\* earlier one), the candidates of every watched bucket whose listing
\* answers are in the cycle's list, the listing step leaves processed_files
\* and failed_files alone, and every candidate of the list has had its
\* invocation when the cycle ends
C33_ListingErrorContained ==
    /\ [][pc = "loop" /\ pc' = "file"
             => /\ \A i \in DOMAIN watch_buckets \ list_errors' :
                      CandidatesAt(i) \subseteq Range(new_files')
                /\ processed_files' = processed_files
                /\ failed_files' = failed_files]_vars
    /\ [](pc = "file" /\ idx > Len(new_files) => Len(outcomes) = Len(new_files))

\* the listing of tika-pipe raised while scans was listed and its candidate
\* processed; in a later cycle tika-pipe is listed and its candidate, never
\* invoked before, is handed to the pipeline
C33_Witness ==
    /\ watch_buckets = <<"tika-pipe", "scans">>
    /\ FileId("scans", "r.md") \in processed_files
    /\ pc = "head"
    /\ CurId = FileId("tika-pipe", "r.pdf")
    /\ history[CurId] = [fails |-> 0, succ |-> FALSE]
    /\ list_errors = {}

\* a step that writes a record of the file in progress over an earlier
\* record of the same invocation: every update but the invocation's first
\* (progress 5) and the terminal ones, which say processing = false
WritesProgress ==
    /\ status' # status
    /\ status'.processing
    /\ pc # "st_download"

\* C34: while one file is being processed, the progress written by an
\* update is never below the progress written by the update before it,
\* until the terminal update, also across the attempts of the remote
\* extractor
C34_ProgressNeverDecreases ==
    [][WritesProgress => status'.progress >= status.progress]_vars

\* the same, for the updates other than the one that opens an attempt after
\* the first (progress 30 again) and the retry update of an attempt that
\* raised after its request was answered
C34_DecreasesOnlyAtNewAttempt ==
    [][WritesProgress /\ ~(pc = "tika_attempt" /\ attempt > 0) /\ pc # "tika_inner_exc"
          => status'.progress >= status.progress]_vars

\* the same, for the invocations in which no status update failed; the
\* log of the invocation's calls must be kept
C34_NeverDecreasesStatusWritable ==
    [][WritesProgress /\ "status_fail" \notin Range(log')
          => status'.progress >= status.progress]_vars

\* the token of handler h's request: the X-Control-Token header or, without
\* one, the token query parameter
TokenOf(h) ==
    IF handlers[h].header \notin {"None", ""} THEN handlers[h].header
    ELSE handlers[h].query

\* handler h has a request whose token is not CONTROL_TOKEN, or
\* CONTROL_TOKEN is unset or empty
Unauthorized(h) ==
    /\ handlers[h].pc # "idle"
    /\ control_token = "" \/ TokenOf(h) # control_token

\* C35: a request to control_service, whitelist_add or whitelist_remove
\* whose token is not CONTROL_TOKEN, and every request when CONTROL_TOKEN is
\* unset or empty, is answered 401, and its handler makes no container
\* start or stop call, no allowlist write and no other call: none of its
\* steps changes the files
C35_UnauthorizedChangesNothing ==
    /\ [](\A h \in Handlers :
             Unauthorized(h)
                => /\ handlers[h].pc \in {"auth", "done"}
                   /\ handlers[h].pc = "done" => handlers[h].code = 401
                   /\ \A e \in effects : e[1] # h)
    /\ [][\A h \in Handlers :
             Unauthorized(h)' /\ handlers'[h] # handlers[h]
                => UNCHANGED <<allowlist_file, allowlist_tmp, inodes, effects>>]_vars

\* CONTROL_TOKEN is set: a whitelist_add carrying a wrong header (and the
\* right token as a query parameter) was answered 401 while the other
\* handler's request, with the right token, replaced the allowlist file
C35_Witness ==
    /\ control_token = "secret"
    /\ handlers[1].endpoint = "whitelist_add"
    /\ handlers[1].header = "wrong"
    /\ handlers[1].pc = "done"
    /\ handlers[1].code = 401
    /\ handlers[2].code = 200
    /\ <<2, "replace">> \in effects

\* CONTROL_TOKEN is empty: requests carrying "secret" and an empty token
\* were answered 401
C35_WitnessTokenUnset ==
    /\ control_token = ""
    /\ handlers[1].endpoint = "control_service" /\ handlers[1].header = "secret"
    /\ handlers[2].endpoint = "whitelist_remove" /\ handlers[2].query = ""
    /\ \A h \in Handlers : handlers[h].pc = "done" /\ handlers[h].code = 401

\* the handlers of authorized whitelist_add and whitelist_remove requests
\* for a valid address
Adding == {h \in Handlers : handlers[h].endpoint = "whitelist_add" /\ handlers[h].ip # ""}
Removing == {h \in Handlers : handlers[h].endpoint = "whitelist_remove" /\ handlers[h].ip # ""}

\* C36: when two authorized requests that change the allowlist for
\* different addresses (two adds, or an add and a remove) have both been
\* handled, in whatever interleaving of their steps, the allowlist file is
\* complete and ends with the deny-all line, holds every added address and
\* every entry that was there before and was not removed
C36_NoLostAllowlistUpdate ==
    (/\ \A h \in Handlers : handlers[h].pc = "done"
     /\ Adding # {}
     /\ Adding \cup Removing = Handlers
     /\ handlers[1].ip # handlers[2].ip)
        => /\ allowlist_file # 0
           /\ inodes[allowlist_file] = AllowlistText(ReadAllowlist)
           /\ \A h \in Adding : handlers[h].ip \in Range(ReadAllowlist)
           /\ \A h \in Removing : handlers[h].ip \notin Range(ReadAllowlist)
           /\ \A ip \in Range(InitialIps) :
                 ip \in Range(ReadAllowlist) \/ \E h \in Removing : handlers[h].ip = ip

====
